---- MODULE Spec2Model ----
(***************************************************************************)
(* Model of the citizenwallet engine: the UserOp store and its timeout     *)
(* reconciler, the receipt shim, the log store with the indexer and the    *)
(* user-op queue, the content hash of a log and the WebSocket pools.       *)
(* Each component has its own specification over the shared variables.     *)
(***************************************************************************)
EXTENDS Integers, Sequences, FiniteSets, TLC

(***************************************************************************)
(* Bounds of the model.                                                    *)
(***************************************************************************)
\* the clock runs from 0 to MaxTime (one tick is one minute for the UserOp
\* store and thirty seconds for the log store)
MaxTime == 3
\* bundle transactions the queue signs in one run
MaxTxs == 2
\* frames a client's send buffer holds (256 in the program)
SendCap == 1
\* maxRetries of the queue service (NewService is given 10 for the user-op queue)
MaxRetries == 1
\* calls of SubscribeFilterLogs that are told apart
MaxSubscribes == 6
\* messages the producers of the batch assembly enqueue
MaxEnqueued == 12

(***************************************************************************)
(* Program constants.                                                      *)
(***************************************************************************)
\* GetTimeoutUserOpsOlderThan(2): minutes a timeout op must have aged
TimeoutMinutes == 2
\* AddLog: placeholders of the INSERT statement and arguments bound to it
AddLogPlaceholders == 11
AddLogArguments == 10
\* RemoveOldInProgressLogs: 30 seconds, one tick of the log store's clock
OldAfter == 1
\* gas estimates retained, and the gas limit when there is none
KeepEstimates == 5
FallbackGasLimit == 500000
\* the queue worker's batch size
batchSize == 10

\* two user operations: one can be reconciled or queried while the other is written
UserOpHashes == {<<"op", 1>>, <<"op", 2>>}
\* the hash of the bundle transaction that carries user operation u
BundleTx(u) == <<"tx", u[2]>>
TxHashes == {BundleTx(u) : u \in UserOpHashes}
\* a hash that is neither a stored user-op hash nor a bundle hash
OtherHash == <<"other", 0>>
NoTx == <<"none", 0>>
NoOp == [status |-> "absent"]

\* the content hash of the log of the data-carrying op in bundle transaction i
LogHash(i) == "log" \o ToString(i)
LogHashes == {LogHash(i) : i \in 1..MaxTxs}
NoLog == [status |-> "absent"]

LogStatusSending == "sending"
LogStatusPending == "pending"
LogStatusSuccess == "success"
LogStatusFail == "fail"
LogStatuses == {LogStatusSending, LogStatusPending, LogStatusSuccess, LogStatusFail}

UserOpStatusPending == "pending"
UserOpStatusSubmitted == "submitted"
UserOpStatusSuccess == "success"
UserOpStatusReverted == "reverted"
UserOpStatusTimeout == "timeout"

VARIABLES
    userops,    \* t_userops: user_op_hash -> row, or NoOp
    now,        \* the wall clock
    receipts,   \* the chain: tx hash -> "null" | "ok" | "failed"
    uq,         \* user-op messages waiting in the queue
    waiting,    \* submitted ops whose asynchronous mining wait is running
    rcPc,       \* reconciler: "idle" | "loop" | "update"
    rcOps,      \* reconciler: the rows fetched by this pass, still to do
    rcReceipt,  \* reconciler: the chain's answer for the head row
    shim,       \* the last eth_getTransactionReceipt request and response
    logs,       \* t_logs: hash -> row, or NoLog
    hl,         \* content hash: the two log records given
    hh,         \* content hash: their hashes, <<>> before they are computed
    poolGen,    \* fabric: pools created so far for the topic (0: none)
    poolOpen,   \* fabric: the topic's current pool reports open
    clients,    \* pool: query -> registered clients
    cstate,     \* client: "new" | "connected" | "gone", and the pool it joined
    send,       \* client: number of frames in its send buffer
    sendClosed, \* clients whose send buffer is closed
    unreg,      \* clients with a pending unregister request
    bc,         \* the broadcast call in progress (it holds the fabric's lock)
    got,        \* envelopes the current or last broadcast call gave each client
    crashed,    \* a goroutine panicked
    queue,      \* user-op queue: the messages in the channel
    enqueued,   \* messages a client has enqueued
    wk,         \* queue worker: its place, its batch and what Process returns
    inProgress, \* UserOpService.inProgress: entry point -> signed bundles
    txs,        \* every bundle transaction signed so far, in signing order
    chainNonce, \* chain: entry point's sponsor -> account nonce
    events,     \* chain: hashes of the logs emitted by mined bundles
    resp,       \* message -> what its result channel received
    envs,       \* envelopes handed to the fabric: <<type, hash, status>>
    qerr,       \* the errors sent on the queue's error channel
    mu,         \* fabric: the broadcast caller that holds p.mu, or NoCaller
    calls,      \* fabric: caller -> its broadcast call
    hist,       \* client -> the callers whose frame entered its send buffer, in order
    tp,         \* pool names: a connection request, a log record, the names computed
    eq,         \* queue back-pressure: capacity, length, the producer and its notices
    ls,         \* log subscription: place of the loop, the context, calls and logs so far
    ix,         \* indexer listener: its place, the log in hand, rows its last purge deleted
    gas,        \* gas limit: retained estimates, the last limit, successful estimations
    bq,         \* batch assembly: the worker's place, the channel, the batch, the counters
    pg,         \* log queries: the table, the request, the function called and its page
    rt,         \* queue retries: the channel, the producers' messages, the worker's place and list
    cr,         \* connect race: the connecting client, p.mu, the topic's pools and their run loops
    sg,         \* bundle signing: the batch, the groups to do, the bundles signed, the counters
    rc2         \* the reconciler pass of the process this one replaces

RECURSIVE SeqsOf(_)
\* every order in which a range loop can visit a set or the keys of a map
SeqsOf(S) ==
    IF S = {} THEN {<<>>}
    ELSE UNION {{<<x>> \o s : s \in SeqsOf(S \ {x})} : x \in S}

hashvars == <<hl, hh>>
poolvars == <<poolGen, poolOpen, clients, cstate, send, sendClosed, unreg, bc, got>>
queuevars == <<queue, enqueued, wk, inProgress, txs, chainNonce, events, resp, envs, qerr>>
uservars == <<userops, now, receipts, uq, waiting, rcPc, rcOps, rcReceipt, shim>>
\* the components that are specified on their own
unitvars == <<mu, calls, hist, tp, eq, ls, ix, gas, bq, pg, rt, cr, sg, rc2>>
\* what the actions of the UserOp store, reconciler and shim leave alone
notUser == <<logs, hashvars, poolvars, crashed, queuevars, unitvars>>
\* what the log store operations leave alone
notLog == <<userops, receipts, uq, waiting, rcPc, rcOps, rcReceipt, shim, hashvars, poolvars,
           crashed, queuevars, unitvars>>
vars == <<uservars, logs, hashvars, poolvars, crashed, queuevars, unitvars>>

(***************************************************************************)
(* Content hash of a log (pkg/engine/log.go).  A data document is nil or a *)
(* JSON object written as its top-level members in document order, each a  *)
(* key and the text of a value; keys are numbered in the order of their    *)
(* strings and are distinct within a document.  Keccak256 is taken to be   *)
(* injective, so a hash is modelled by the bytes it is computed from.      *)
(***************************************************************************)
DataKeys == {1, 2}
ValueTexts == {"1", "1.0", "2"}

\* json.Unmarshal of a value text into any, then json.Marshal of the result
Reencode(text) == IF text = "1.0" THEN "1" ELSE text

\* json.Unmarshal(b, &m): the members as a map
Unmarshal(doc) ==
    [k \in {doc[i][1] : i \in 1..Len(doc)} |->
        LET i == CHOOSE j \in 1..Len(doc) : doc[j][1] = k IN doc[i][2]]

RECURSIVE SortStrings(_)
\* sort.Strings(keys)
SortStrings(keys) ==
    IF keys = {} THEN <<>>
    ELSE LET k == CHOOSE x \in keys : \A y \in keys : x <= y
         IN  <<k>> \o SortStrings(keys \ {k})

\* the members in document order, with no sorting
documentOrderBytes(doc) ==
    [i \in 1..Len(doc) |-> <<doc[i][1], Reencode(doc[i][2])>>]

\* key bytes then value bytes of every member, in the order of the sorted keys
sortedJSONBytes(doc) ==
    LET m == Unmarshal(doc)
        keys == SortStrings(DOMAIN m)
    IN  [i \in 1..Len(keys) |-> <<keys[i], Reencode(m[keys[i]])>>]

\* keccak256(LeftPadBytes(Value, 32) || sortedJSONBytes(Data) || FromHex(TxHash))
GenerateUniqueHash(l) ==
    <<l.value, IF l.data.isNil THEN <<>> ELSE sortedJSONBytes(l.data.doc), l.tx_hash>>

Documents ==
    {<<>>} \cup {<<<<k, t>>>> : k \in DataKeys, t \in ValueTexts}
           \cup UNION {{<<<<k1, t1>>, <<k2, t2>>>> :
                             k2 \in DataKeys \ {k1}, t1 \in ValueTexts, t2 \in ValueTexts} :
                        k1 \in DataKeys}
\* Data is a *json.RawMessage: nil, or a document
Datas == {[isNil |-> TRUE, doc |-> <<>>]} \cup {[isNil |-> FALSE, doc |-> d] : d \in Documents}
\* sender, to, nonce, status and the timestamps of a record vary together as "rest"
Logs == [value : {0, 1}, data : Datas, tx_hash : {"0xa", "0xb"}, rest : {1, 2}]

IdleHash ==
    /\ hl = <<>>
    /\ hh = <<>>

HashLogs ==
    /\ hh = <<>>
    /\ hh' = <<GenerateUniqueHash(hl[1]), GenerateUniqueHash(hl[2])>>
    /\ UNCHANGED <<hl, uservars, logs, poolvars, crashed, queuevars, unitvars>>

(***************************************************************************)
(* WebSocket fabric (internal/ws/pools.go) and pool (internal/ws/          *)
(* connections.go), for one topic.  Each client connects once, with a      *)
(* fixed query.                                                            *)
(***************************************************************************)
Clients == {"c1", "c2", "c3"}
Queries == {"q1", "q2"}
QueryOf(c) == IF c = "c3" THEN "q2" ELSE "q1"
Records == {"r1", "r2"}

\* the record's match against a client's query: r1 matches q1, r2 matches both
MatchesQuery(r, query) == r = "r2" \/ query = "q1"

NoBroadcast == [pc |-> "idle", rec |-> "r1", queries |-> <<>>, cls |-> <<>>]

IdlePool ==
    /\ poolGen = 0
    /\ poolOpen = FALSE
    /\ clients = [q \in Queries |-> {}]
    /\ cstate = [c \in Clients |-> [at |-> "new", pool |-> 0]]
    /\ send = [c \in Clients |-> 0]
    /\ sendClosed = {}
    /\ unreg = {}
    /\ bc = NoBroadcast
    /\ got = [c \in Clients |-> 0]

notPool == <<uservars, logs, hashvars, queuevars, unitvars>>

\* ConnectionPools.Connect: under the fabric's lock, a pool that is missing or
\* not open is replaced by a new one; the pool's run loop registers the client
Connect(c) ==
    /\ ~crashed
    /\ bc.pc = "idle"
    /\ cstate[c].at = "new"
    /\ IF poolOpen
       THEN /\ clients' = [clients EXCEPT ![QueryOf(c)] = @ \cup {c}]
            /\ poolGen' = poolGen
       ELSE /\ clients' = [q \in Queries |-> IF q = QueryOf(c) THEN {c} ELSE {}]
            /\ poolGen' = poolGen + 1
    /\ poolOpen' = TRUE
    /\ cstate' = [cstate EXCEPT ![c] = [at |-> "connected", pool |-> poolGen']]
    /\ UNCHANGED <<send, sendClosed, unreg, bc, got, crashed, notPool>>

\* readPump ends on a read error: defer cm.unregister <- client
Disconnect(c) ==
    /\ ~crashed
    /\ cstate[c].at = "connected"
    /\ cstate' = [cstate EXCEPT ![c].at = "gone"]
    /\ unreg' = unreg \cup {c}
    /\ UNCHANGED <<poolGen, poolOpen, clients, send, sendClosed, bc, got, crashed, notPool>>

\* Run, case client := <-cm.unregister, and the deferred Close when no client
\* is left.  The request of a client of a pool that has closed is a send on a
\* closed channel; closing a send buffer twice panics as well.
Unregister(c) ==
    /\ ~crashed
    /\ c \in unreg
    /\ unreg' = unreg \ {c}
    /\ IF ~(poolOpen /\ cstate[c].pool = poolGen)
       THEN crashed' = TRUE /\ UNCHANGED <<clients, sendClosed, poolOpen>>
       ELSE IF clients[QueryOf(c)] = {}
       THEN UNCHANGED <<clients, sendClosed, poolOpen, crashed>>
       ELSE /\ clients' = [clients EXCEPT ![QueryOf(c)] = {}]
            /\ crashed' = (c \in sendClosed)
            /\ sendClosed' = sendClosed \cup {c}
            /\ poolOpen' = (\E q \in Queries : clients'[q] # {})
    /\ UNCHANGED <<poolGen, cstate, send, bc, got, notPool>>

\* writePump: case message, ok := <-client.send
WritePump(c) ==
    /\ ~crashed
    /\ send[c] > 0
    /\ send' = [send EXCEPT ![c] = @ - 1]
    /\ UNCHANGED <<poolGen, poolOpen, clients, cstate, sendClosed, unreg, bc, got, crashed, notPool>>

\* the fabric's registry has a pool for the topic: Connect stores one, nothing
\* deletes it
PoolRegistered == poolGen > 0

\* ConnectionPool.Queries
PoolQueries == {q \in Queries : clients[q] # {}}

\* every client of the pool, whatever its query
AllPoolClients(query) == UNION {clients[q] : q \in Queries}

\* ConnectionPool.BroadcastMessage: the copy of cm.clients[query]
PoolClients(query) == clients[query]

\* ConnectionPools.BroadcastMessage up to queries := pool.Queries()
BroadcastMessage(r) ==
    /\ ~crashed
    /\ bc.pc = "idle"
    /\ got' = [c \in Clients |-> 0]
    /\ IF poolOpen
       THEN \E qs \in SeqsOf(PoolQueries) :
               bc' = [pc |-> "queries", rec |-> r, queries |-> qs, cls |-> <<>>]
       ELSE bc' = [NoBroadcast EXCEPT !.rec = r]
    /\ UNCHANGED <<poolGen, poolOpen, clients, cstate, send, sendClosed, unreg, crashed, notPool>>

\* for _, query := range queries: skip it unless m.MatchesQuery(query), else
\* enter pool.BroadcastMessage(query, b) and copy the clients of the query
BroadcastQuery ==
    /\ ~crashed
    /\ bc.pc = "queries"
    /\ IF bc.queries = <<>>
       THEN bc' = [bc EXCEPT !.pc = "idle"]
       ELSE IF ~MatchesQuery(bc.rec, Head(bc.queries))
       THEN bc' = [bc EXCEPT !.queries = Tail(@)]
       ELSE \E cs \in SeqsOf(PoolClients(Head(bc.queries))) :
               bc' = [bc EXCEPT !.pc = "clients", !.queries = Tail(@), !.cls = cs]
    /\ UNCHANGED <<poolGen, poolOpen, clients, cstate, send, sendClosed, unreg, got, crashed, notPool>>

\* select { case client.send <- message: default: go func ... cm.unregister <- c }
BroadcastSend ==
    /\ ~crashed
    /\ bc.pc = "clients"
    /\ IF bc.cls = <<>>
       THEN /\ bc' = [bc EXCEPT !.pc = "queries"]
            /\ UNCHANGED <<send, got, unreg, crashed>>
       ELSE LET c == Head(bc.cls)
            IN  /\ bc' = [bc EXCEPT !.cls = Tail(@)]
                /\ IF c \in sendClosed
                   THEN crashed' = TRUE /\ UNCHANGED <<send, got, unreg>>
                   ELSE IF send[c] < SendCap
                   THEN /\ send' = [send EXCEPT ![c] = @ + 1]
                        /\ got' = [got EXCEPT ![c] = @ + 1]
                        /\ UNCHANGED <<unreg, crashed>>
                   ELSE /\ unreg' = unreg \cup {c}
                        /\ UNCHANGED <<send, got, crashed>>
    /\ UNCHANGED <<poolGen, poolOpen, clients, cstate, sendClosed, notPool>>

NextPool ==
    \/ \E c \in Clients : Connect(c)
    \/ \E c \in Clients : Disconnect(c)
    \/ \E c \in Clients : Unregister(c)
    \/ \E c \in Clients : WritePump(c)
    \/ \E r \in Records : BroadcastMessage(r)
    \/ BroadcastQuery
    \/ BroadcastSend

(***************************************************************************)
(* Concurrent broadcast calls (internal/ws/pools.go, BroadcastMessage).    *)
(* Each caller makes one call; the call builds and marshals its message    *)
(* before it takes p.mu and keeps the lock until it returns.  The pool is  *)
(* open and its clients are registered.                                    *)
(***************************************************************************)
Callers == {"b1", "b2"}
NoCaller == "none"

\* at \in "idle" | "called" | "queries" | "clients" | "done"; after: the callers
\* whose call had returned when this call was made
NoCall2 == [at |-> "idle", rec |-> "r1", queries |-> <<>>, cls |-> <<>>, after |-> {}]

IdleOrder ==
    /\ mu = NoCaller
    /\ calls = [b \in Callers |-> NoCall2]
    /\ hist = [c \in Clients |-> <<>>]

\* a caller that ignores the lock
NoLock(holder) == TRUE

\* p.mu.Lock() returns when no other goroutine holds the mutex
TryLock(holder) == holder = NoCaller

notOrder == <<uservars, logs, hashvars, queuevars, crashed, poolGen, poolOpen, clients,
              cstate, sendClosed, bc, got, tp, eq, ls, ix, gas, bq, pg, rt, cr, sg, rc2>>

\* the call is made: wsm := m.ToWSMessage(t); b, err := json.Marshal(wsm)
CallBroadcast(b, r) ==
    /\ calls[b].at = "idle"
    /\ calls' = [calls EXCEPT ![b] = [NoCall2 EXCEPT !.at = "called", !.rec = r,
                                      !.after = {a \in Callers : calls[a].at = "done"}]]
    /\ UNCHANGED <<mu, hist, send, unreg, notOrder>>

\* p.mu.Lock(); the pool is there and open: queries := pool.Queries()
CallLock(b) ==
    /\ calls[b].at = "called"
    /\ TryLock(mu)
    /\ mu' = b
    /\ \E qs \in SeqsOf(PoolQueries) :
          calls' = [calls EXCEPT ![b].at = "queries", ![b].queries = qs]
    /\ UNCHANGED <<hist, send, unreg, notOrder>>

\* for _, query := range queries, and the deferred p.mu.Unlock() after the last
CallQuery(b) ==
    /\ calls[b].at = "queries"
    /\ IF calls[b].queries = <<>>
       THEN /\ calls' = [calls EXCEPT ![b].at = "done"]
            /\ mu' = IF mu = b THEN NoCaller ELSE mu
       ELSE /\ mu' = mu
            /\ IF ~MatchesQuery(calls[b].rec, Head(calls[b].queries))
               THEN calls' = [calls EXCEPT ![b].queries = Tail(@)]
               ELSE \E cs \in SeqsOf(PoolClients(Head(calls[b].queries))) :
                       calls' = [calls EXCEPT ![b].at = "clients", ![b].queries = Tail(@),
                                              ![b].cls = cs]
    /\ UNCHANGED <<hist, send, unreg, notOrder>>

\* select { case client.send <- message: default: go func ... cm.unregister <- c }
CallSend(b) ==
    /\ calls[b].at = "clients"
    /\ IF calls[b].cls = <<>>
       THEN /\ calls' = [calls EXCEPT ![b].at = "queries"]
            /\ UNCHANGED <<hist, send, unreg>>
       ELSE LET c == Head(calls[b].cls)
            IN  /\ calls' = [calls EXCEPT ![b].cls = Tail(@)]
                /\ IF send[c] < SendCap
                   THEN /\ send' = [send EXCEPT ![c] = @ + 1]
                        /\ hist' = [hist EXCEPT ![c] = Append(@, b)]
                        /\ UNCHANGED unreg
                   ELSE /\ unreg' = unreg \cup {c}
                        /\ UNCHANGED <<hist, send>>
    /\ UNCHANGED <<mu, notOrder>>

NextOrder ==
    \/ \E b \in Callers, r \in Records : CallBroadcast(b, r)
    \/ \E b \in Callers : CallLock(b)
    \/ \E b \in Callers : CallQuery(b)
    \/ \E b \in Callers : CallSend(b)
    \/ \E c \in Clients : WritePump(c)

(***************************************************************************)
(* UserOp store (internal/db/userop.go).  A row keeps user_op_hash (the    *)
(* key), tx_hash, status, valid_until and created_at; updated_at, which    *)
(* every update stamps and no operation reads, is left out of the rows.    *)
(***************************************************************************)
Stored(u) == userops[u] # NoOp

\* INSERT ... ON CONFLICT (user_op_hash) DO NOTHING
AddUserOp(u, validUntil) ==
    IF Stored(u) THEN userops
    ELSE [userops EXCEPT ![u] = [status |-> UserOpStatusPending, tx_hash |-> NoTx,
                                 valid_until |-> validUntil, created_at |-> now]]

\* an update of the status that also resets tx_hash
UpdateStatusResettingTxHash(u, status) ==
    IF Stored(u)
    THEN [userops EXCEPT ![u].status = status, ![u].tx_hash = NoTx]
    ELSE userops

\* UPDATE ... SET status = $1, updated_at = $2 WHERE user_op_hash = $3
UpdateStatus(u, status) ==
    IF Stored(u)
    THEN [userops EXCEPT ![u].status = status]
    ELSE userops

\* UPDATE ... SET status = $1, tx_hash = $2, updated_at = $3 WHERE user_op_hash = $4
UpdateStatusAndTxHash(u, status, tx) ==
    IF Stored(u)
    THEN [userops EXCEPT ![u].status = status, ![u].tx_hash = tx]
    ELSE userops

\* UPDATE ... SET status = reverted WHERE status = pending AND valid_until <= now
MarkExpiredAsReverted ==
    [u \in UserOpHashes |->
        IF Stored(u) /\ userops[u].status = UserOpStatusPending
                     /\ userops[u].valid_until <= now
        THEN [userops[u] EXCEPT !.status = UserOpStatusReverted]
        ELSE userops[u]]

\* spec-modelled: UPDATE ... SET status = success WHERE user_op_hash = $1
UpdateStatusToSuccess(u) == UpdateStatus(u, UserOpStatusSuccess)

\* spec-modelled: the rows with status timeout that are older than the given age
GetTimeoutUserOpsOlderThan(minutes) ==
    {u \in UserOpHashes : Stored(u) /\ userops[u].status = UserOpStatusTimeout
                                    /\ userops[u].created_at + minutes < now}

(***************************************************************************)
(* The chain (external): a broadcast transaction has no receipt until it   *)
(* is mined, then a receipt with status ok or failed.  Any RPC may fail.   *)
(***************************************************************************)
NullResult == <<"null">>
ReceiptOf(tx) ==
    IF tx \in TxHashes /\ receipts[tx] # "null"
    THEN <<"receipt", tx, receipts[tx]>>
    ELSE NullResult

\* no call made
NoCall == [result |-> <<"nocall">>, err |-> FALSE]

\* evm.Call("eth_getTransactionReceipt", &result, [param])
ChainCall(param, rpcOk) ==
    IF rpcOk THEN [result |-> ReceiptOf(param), err |-> FALSE]
    ELSE [result |-> NullResult, err |-> TRUE]

Broadcast(tx) == \E u \in UserOpHashes : Stored(u) /\ userops[u].tx_hash = tx

MineTx(tx, outcome) ==
    /\ Broadcast(tx)
    /\ receipts[tx] = "null"
    /\ receipts' = [receipts EXCEPT ![tx] = outcome]
    /\ UNCHANGED <<userops, now, uq, waiting, rcPc, rcOps, rcReceipt, shim, notUser>>

Tick ==
    /\ now < MaxTime
    /\ now' = now + 1
    /\ UNCHANGED <<userops, receipts, uq, waiting, rcPc, rcOps, rcReceipt, shim, notUser>>

(***************************************************************************)
(* Timeout reconciler (internal/queue/timeout.go)                          *)
(***************************************************************************)
\* a lookup that counts every completed call as a receipt
checkReceiptAny(call) == ~call.err

\* checkReceipt: a failed call and a null result both count as "no receipt"
checkReceipt(call) == ~call.err /\ call.result # NullResult

\* the status checkTimeoutUserOps writes for a fetched row
ReconcileStatus(row, hasReceipt) ==
    IF row.tx_hash = NoTx THEN UserOpStatusReverted
    ELSE IF ~hasReceipt THEN UserOpStatusReverted
    ELSE UserOpStatusSuccess

\* ops, err := GetTimeoutUserOpsOlderThan(2); if len(ops) == 0 { return }
RcFetch ==
    /\ rcPc = "idle"
    /\ \E order \in SeqsOf(GetTimeoutUserOpsOlderThan(TimeoutMinutes)) :
          rcOps' = [i \in 1..Len(order) |->
                       [hash |-> order[i], tx_hash |-> userops[order[i]].tx_hash]]
    /\ rcPc' = IF rcOps' = <<>> THEN "idle" ELSE "loop"
    /\ rcReceipt' = NoCall
    /\ UNCHANGED <<userops, now, receipts, uq, waiting, shim, notUser>>

\* one iteration for a row without tx_hash: mark reverted, continue
RcNoTxHash ==
    /\ rcPc = "loop"
    /\ Head(rcOps).tx_hash = NoTx
    /\ userops' = UpdateStatus(Head(rcOps).hash, ReconcileStatus(Head(rcOps), FALSE))
    /\ rcOps' = Tail(rcOps)
    /\ rcPc' = IF rcOps' = <<>> THEN "idle" ELSE "loop"
    /\ UNCHANGED <<now, receipts, uq, waiting, rcReceipt, shim, notUser>>

\* hasReceipt := s.checkReceipt(*op.TxHash)
RcCheckReceipt(rpcOk) ==
    /\ rcPc = "loop"
    /\ Head(rcOps).tx_hash # NoTx
    /\ rcReceipt' = ChainCall(Head(rcOps).tx_hash, rpcOk)
    /\ rcPc' = "update"
    /\ UNCHANGED <<userops, now, receipts, uq, waiting, rcOps, shim, notUser>>

\* the UpdateStatus / UpdateStatusToSuccess that follows checkReceipt
RcUpdate ==
    /\ rcPc = "update"
    /\ LET row == Head(rcOps)
           st == ReconcileStatus(row, checkReceipt(rcReceipt))
       IN userops' = IF st = UserOpStatusSuccess
                     THEN UpdateStatusToSuccess(row.hash)
                     ELSE UpdateStatus(row.hash, st)
    /\ rcOps' = Tail(rcOps)
    /\ rcPc' = IF rcOps' = <<>> THEN "idle" ELSE "loop"
    /\ rcReceipt' = NoCall
    /\ UNCHANGED <<now, receipts, uq, waiting, shim, notUser>>

(***************************************************************************)
(* Receipt shim (internal/chain/handlers.go, EthGetTransactionReceipt)     *)
(***************************************************************************)
\* SELECT ... WHERE user_op_hash = $1; no row gives nil
GetUserOp(hash) ==
    IF hash \in UserOpHashes /\ Stored(hash) THEN userops[hash] ELSE NoOp

NullResponse == [result |-> NullResult, err |-> FALSE]

\* the earlier revision of the handler: a receipt synthesised from the row
buildSyntheticReceipt(hash, rpcOk) ==
    LET userOp == GetUserOp(hash)
    IN  IF userOp # NoOp
        THEN [called |-> NoTx,
              resp |-> IF userOp.status \in {UserOpStatusPending, UserOpStatusSubmitted}
                       THEN NullResponse
                       ELSE [result |-> <<"receipt", hash,
                                          IF userOp.status = UserOpStatusSuccess
                                          THEN "ok" ELSE "failed">>,
                             err |-> FALSE]]
        ELSE [called |-> hash, resp |-> ChainCall(hash, rpcOk)]

\* the parameter forwarded to the chain (NoTx when it is not called) and the response
EthGetTransactionReceipt(hash, rpcOk) ==
    LET userOp == GetUserOp(hash)
    IN  IF userOp # NoOp
        THEN IF userOp.tx_hash # NoTx
             THEN [called |-> userOp.tx_hash, resp |-> ChainCall(userOp.tx_hash, rpcOk)]
             ELSE [called |-> NoTx, resp |-> NullResponse]
        ELSE [called |-> hash, resp |-> ChainCall(hash, rpcOk)]

QueryHashes == UserOpHashes \cup TxHashes \cup {OtherHash}

(***************************************************************************)
(* The table outlives the process.  Start runs a pass at once, so the pass *)
(* of a starting process can overlap the pass the process it replaces has  *)
(* not finished.  rc2 is that older pass: the same checkTimeoutUserOps,    *)
(* with its own fetched rows and its own receipt call.                     *)
(***************************************************************************)
NoPass == [pc |-> "idle", ops |-> <<>>, receipt |-> NoCall]
IdleOld == rc2 = NoPass
notOld == <<logs, hashvars, poolvars, crashed, queuevars, mu, calls, hist, tp, eq, ls, ix, gas,
           bq, pg, rt, cr, sg>>

\* ops, err := GetTimeoutUserOpsOlderThan(2), by the older process
OldFetch ==
    /\ rc2.pc = "idle"
    /\ \E order \in SeqsOf(GetTimeoutUserOpsOlderThan(TimeoutMinutes)) :
          /\ order # <<>>
          /\ rc2' = [pc |-> "loop", receipt |-> NoCall,
                     ops |-> [i \in 1..Len(order) |->
                                 [hash |-> order[i], tx_hash |-> userops[order[i]].tx_hash]]]
    /\ UNCHANGED <<uservars, notOld>>

\* its iteration for a row without tx_hash
OldNoTxHash ==
    /\ rc2.pc = "loop"
    /\ Head(rc2.ops).tx_hash = NoTx
    /\ userops' = UpdateStatus(Head(rc2.ops).hash, ReconcileStatus(Head(rc2.ops), FALSE))
    /\ rc2' = [rc2 EXCEPT !.ops = Tail(rc2.ops),
                          !.pc = IF Tail(rc2.ops) = <<>> THEN "idle" ELSE "loop"]
    /\ UNCHANGED <<now, receipts, uq, waiting, rcPc, rcOps, rcReceipt, shim, notOld>>

\* its hasReceipt := s.checkReceipt(*op.TxHash)
OldCheckReceipt(rpcOk) ==
    /\ rc2.pc = "loop"
    /\ Head(rc2.ops).tx_hash # NoTx
    /\ rc2' = [rc2 EXCEPT !.receipt = ChainCall(Head(rc2.ops).tx_hash, rpcOk), !.pc = "update"]
    /\ UNCHANGED <<uservars, notOld>>

\* its UpdateStatus / UpdateStatusToSuccess after checkReceipt
OldUpdate ==
    /\ rc2.pc = "update"
    /\ LET row == Head(rc2.ops)
           st == ReconcileStatus(row, checkReceipt(rc2.receipt))
       IN userops' = IF st = UserOpStatusSuccess
                     THEN UpdateStatusToSuccess(row.hash)
                     ELSE UpdateStatus(row.hash, st)
    /\ rc2' = [pc |-> IF Tail(rc2.ops) = <<>> THEN "idle" ELSE "loop",
               ops |-> Tail(rc2.ops), receipt |-> NoCall]
    /\ UNCHANGED <<now, receipts, uq, waiting, rcPc, rcOps, rcReceipt, shim, notOld>>

GetReceipt(hash, rpcOk) ==
    /\ shim' = [hash |-> hash, rpcOk |-> rpcOk, out |-> EthGetTransactionReceipt(hash, rpcOk)]
    /\ UNCHANGED <<userops, now, receipts, uq, waiting, rcPc, rcOps, rcReceipt, notUser>>

(***************************************************************************)
(* The writers of the UserOp store on the submission path.  Their code is  *)
(* not part of the sources; they follow section 4.2 of the specification   *)
(* and use the store operations above.                                     *)
(***************************************************************************)
\* eth_sendUserOperation: insert as pending and enqueue
SendUserOperation(u, validUntil) ==
    /\ userops' = AddUserOp(u, validUntil)
    /\ uq' = IF Stored(u) THEN uq ELSE uq \cup {u}
    /\ UNCHANGED <<now, receipts, waiting, rcPc, rcOps, rcReceipt, shim, notUser>>

\* the queue broadcast the bundle: status submitted and tx_hash in one step
QueueSubmitted(u) ==
    /\ u \in uq
    /\ userops' = UpdateStatusAndTxHash(u, UserOpStatusSubmitted, BundleTx(u))
    /\ uq' = uq \ {u}
    /\ waiting' = waiting \cup {u}
    /\ UNCHANGED <<now, receipts, rcPc, rcOps, rcReceipt, shim, notUser>>

\* the queue gave up on the message: the row stays as it is
QueueFailed(u) ==
    /\ u \in uq
    /\ uq' = uq \ {u}
    /\ UNCHANGED <<userops, now, receipts, waiting, rcPc, rcOps, rcReceipt, shim, notUser>>

\* the wait for mining ended: receipt ok, receipt failed, or no receipt in time
WaitForTxDone(u) ==
    /\ u \in waiting
    /\ LET r == receipts[userops[u].tx_hash]
       IN userops' = UpdateStatus(u, IF r = "ok" THEN UserOpStatusSuccess
                                     ELSE IF r = "failed" THEN UserOpStatusReverted
                                     ELSE UserOpStatusTimeout)
    /\ waiting' = waiting \ {u}
    /\ UNCHANGED <<now, receipts, uq, rcPc, rcOps, rcReceipt, shim, notUser>>

\* the expiry policy
ExpirePending ==
    /\ userops' = MarkExpiredAsReverted
    /\ UNCHANGED <<now, receipts, uq, waiting, rcPc, rcOps, rcReceipt, shim, notUser>>

(***************************************************************************)
(* Specification of the UserOp store, reconciler and shim.  The table is   *)
(* durable: a row left in status timeout by an earlier run, with or        *)
(* without tx_hash, may be there at start.                                 *)
(***************************************************************************)
(***************************************************************************)
(* Pool names (internal/events/handlers.go, pkg/engine/log.go, ws.go).  A  *)
(* text is a sequence of characters; the letters come in two cases.        *)
(***************************************************************************)
Addresses == {<<"a", "b">>, <<"A", "b">>, <<"c", "b">>}
TopicTexts == {<<"d">>, <<"D">>, <<"e">>}
NoPool == <<>>

LowerChar(ch) ==
    CASE ch = "A" -> "a" [] ch = "B" -> "b" [] ch = "C" -> "c" [] ch = "D" -> "d"
      [] ch = "E" -> "e" [] OTHER -> ch

\* strings.ToLower
ToLower(text) == [i \in DOMAIN text |-> LowerChar(text[i])]

\* fmt.Sprintf("%s/%s", a, b)
Sprintf2(a, b) == a \o <<"/">> \o b

\* the name under which HandleConnection asks the fabric for a pool
poolName(contract, topic) == Sprintf2(contract, topic)

\* Log.GetPoolTopic: nil without data or without a string under "topic"
GetPoolTopic(to, hasTopic, topic0) ==
    IF hasTopic THEN ToLower(Sprintf2(to, topic0)) ELSE NoPool

IdleTopic ==
    tp = [contract |-> <<"a", "b">>, topic |-> <<"d">>, to |-> <<"a", "b">>, topic0 |-> <<"d">>,
          hasTopic |-> TRUE, refused |-> FALSE, joined |-> NoPool, sent |-> NoPool]

notTopic == <<uservars, logs, hashvars, poolvars, crashed, queuevars, mu, calls, hist, eq, ls,
             ix, gas, bq, pg, rt, cr, sg, rc2>>

\* GET /v1/events/{contract}/{topic}; EventDB.EventExists decides on the contract
HandleConnection(exists) ==
    /\ tp.joined = NoPool
    /\ tp' = [tp EXCEPT !.joined = IF exists THEN poolName(tp.contract, tp.topic) ELSE NoPool,
                        !.refused = ~exists]
    /\ UNCHANGED notTopic

\* Log.ToWSMessage: PoolID of the envelope, the key BroadcastMessage looks up
ToWSMessage ==
    /\ tp.sent = NoPool
    /\ tp' = [tp EXCEPT !.sent = GetPoolTopic(tp.to, tp.hasTopic, tp.topic0)]
    /\ UNCHANGED notTopic

(***************************************************************************)
(* Back-pressure of the queue (internal/queue/queue.go, Enqueue).  One     *)
(* producer and the worker's receive; the queue is its length.             *)
(***************************************************************************)
Capacities == 1..10

\* bufferWarning := s.bufferSize - (s.bufferSize / 5)
bufferWarning(bufferSize) == bufferSize - (bufferSize \div 5)

IdleEnqueue == eq = [cap |-> 1, len |-> 0, at |-> "idle", out |-> {}]

notEnqueue == <<uservars, logs, hashvars, poolvars, crashed, queuevars, mu, calls, hist, tp, ls,
               ix, gas, bq, pg, rt, cr, sg, rc2>>

\* Enqueue up to the send: the two notifications on the error channel
EnqueueNotify ==
    /\ eq.at = "idle"
    /\ eq' = [eq EXCEPT !.at = "placing",
                        !.out = (IF eq.len > bufferWarning(eq.cap) THEN {"almost full"} ELSE {})
                                \cup (IF eq.len = eq.cap THEN {"full"} ELSE {})]
    /\ UNCHANGED notEnqueue

\* s.queue <- message returns when the channel has room
EnqueuePlace ==
    /\ eq.at = "placing"
    /\ eq.len < eq.cap
    /\ eq' = [eq EXCEPT !.at = "idle", !.len = @ + 1]
    /\ UNCHANGED notEnqueue

\* the worker receives a message
Receive ==
    /\ eq.len > 0
    /\ eq' = [eq EXCEPT !.len = @ - 1]
    /\ UNCHANGED notEnqueue

(***************************************************************************)
(* Log subscription (EthService.ListenForLogs).  The loop is at the call   *)
(* of SubscribeFilterLogs, in the select of an active subscription, in the *)
(* one-second wait, or has returned.  The counters saturate.               *)
(***************************************************************************)
Saturate(n, max) == IF n < max THEN n + 1 ELSE n

IdleListen == ls = [at |-> "subscribe", cancelled |-> FALSE, calls |-> 0, logs |-> 0]

notListen == <<uservars, logs, hashvars, poolvars, crashed, queuevars, mu, calls, hist, tp, eq,
              ix, gas, bq, pg, rt, cr, sg, rc2>>

\* sub, err := e.client.SubscribeFilterLogs(ctx, q, ch); the node decides
SubscribeFilterLogs(ok) ==
    /\ ls.at = "subscribe"
    /\ ls' = [ls EXCEPT !.at = IF ok THEN "active" ELSE "wait",
                        !.calls = Saturate(@, MaxSubscribes)]
    /\ UNCHANGED notListen

\* the node delivers a log on ch
DeliverLog ==
    /\ ls.at = "active"
    /\ ls' = [ls EXCEPT !.logs = Saturate(@, MaxTxs)]
    /\ UNCHANGED notListen

\* case err := <-sub.Err(): sub.Unsubscribe()
SubscriptionError ==
    /\ ls.at = "active"
    /\ ls' = [ls EXCEPT !.at = "wait"]
    /\ UNCHANGED notListen

\* <-time.After(1 * time.Second); continue
AfterSecond ==
    /\ ls.at = "wait"
    /\ ls' = [ls EXCEPT !.at = "subscribe"]
    /\ UNCHANGED notListen

\* the parent cancels the context
CancelContext ==
    /\ ~ls.cancelled
    /\ ls' = [ls EXCEPT !.cancelled = TRUE]
    /\ UNCHANGED notListen

\* case <-ctx.Done(): sub.Unsubscribe(); return ctx.Err()
ContextDone ==
    /\ ls.at = "active"
    /\ ls.cancelled
    /\ ls' = [ls EXCEPT !.at = "returned"]
    /\ UNCHANGED notListen

(***************************************************************************)
(* The indexer's listener step by step (internal/indexer/events.go,        *)
(* ListenToLogs): the store calls can fail, and the clock and the table    *)
(* found at start are arbitrary.                                           *)
(***************************************************************************)
IdleIndexer == ix = [at |-> "recv", log |-> 1, purged |-> {}]

notIndexer == <<userops, receipts, uq, waiting, rcPc, rcOps, rcReceipt, shim, hashvars,
                poolvars, crashed, queue, enqueued, wk, inProgress, txs, chainNonce, events,
                resp, qerr, mu, calls, hist, tp, eq, ls, gas, bq, pg, rt, cr, sg, rc2>>

\* every store call is followed by: if err != nil { return err }
ListenerNextIgnoringErrors(next, ok) == next

ListenerNext(next, ok) == IF ok THEN next ELSE "returned"

(***************************************************************************)
(* Gas limit of a new transaction (EthService.NewTx, trackGasEstimate,     *)
(* getAverageGasEstimate).  The node's estimates are positive numbers.     *)
(***************************************************************************)
GasEstimates == {5, 7, 12}

RECURSIVE SumOf(_)
SumOf(s) == IF s = <<>> THEN 0 ELSE Head(s) + SumOf(Tail(s))

\* a list that keeps its first estimates and drops the new ones
trackGasEstimateKeepingOldest(estimates, gasLimit) ==
    LET all == Append(estimates, gasLimit)
    IN  IF Len(all) > KeepEstimates THEN SubSeq(all, 1, KeepEstimates) ELSE all

\* append, then e.gasEstimates[len(e.gasEstimates)-5:] when longer than 5
trackGasEstimate(estimates, gasLimit) ==
    LET all == Append(estimates, gasLimit)
    IN  IF Len(all) > KeepEstimates
        THEN SubSeq(all, Len(all) - KeepEstimates + 1, Len(all))
        ELSE all

\* 0 for an empty list, else sum / len
getAverageGasEstimate(estimates) ==
    IF Len(estimates) = 0 THEN 0 ELSE SumOf(estimates) \div Len(estimates)

\* the gas limit before the buffer
BaseGasLimit(estimates, ok, estimate) ==
    IF ok THEN estimate
    ELSE IF getAverageGasEstimate(estimates) > 0 THEN getAverageGasEstimate(estimates)
    ELSE FallbackGasLimit

IdleGas == gas = [estimates |-> <<>>, limit |-> 0, tracked |-> 0]

notGas == <<uservars, logs, hashvars, poolvars, crashed, queuevars, mu, calls, hist, tp, eq, ls,
           ix, bq, pg, rt, cr, sg, rc2>>

\* NewTx: the fee estimates may fail (no transaction); EstimateGasLimit gives
\* an estimate or fails; Gas: gasLimit + gasLimit / 5
NewTx(feesOk, ok, estimate) ==
    /\ gas' = IF ~feesOk THEN gas
              ELSE [estimates |-> IF ok THEN trackGasEstimate(gas.estimates, estimate)
                                  ELSE gas.estimates,
                    limit |-> BaseGasLimit(gas.estimates, ok, estimate)
                              + (BaseGasLimit(gas.estimates, ok, estimate) \div 5),
                    tracked |-> IF ok THEN Saturate(gas.tracked, KeepEstimates + 1)
                                ELSE gas.tracked]
    /\ UNCHANGED notGas

(***************************************************************************)
(* Batch assembly of the queue worker (internal/queue/queue.go, Start).    *)
(* Producers enqueue the messages 1, 2, ... in this order; a message that  *)
(* is enqueued again for a retry is written as its negative.               *)
(***************************************************************************)
\* a loop that also runs at a full batch
BatchOpenInclusive(batch) == Len(batch) <= batchSize

\* for len(batch) < batchSize
BatchOpen(batch) == Len(batch) < batchSize

IdleBatch == bq = [at |-> "idle", queue |-> <<>>, batch |-> <<>>, next |-> 1, last |-> 0]

notBatch == <<uservars, logs, hashvars, poolvars, crashed, queuevars, mu, calls, hist, tp, eq,
             ls, ix, gas, pg, rt, cr, sg, rc2>>

\* a producer's Enqueue
BqEnqueue ==
    /\ bq.next <= MaxEnqueued
    /\ bq' = [bq EXCEPT !.queue = Append(@, bq.next), !.next = @ + 1]
    /\ UNCHANGED notBatch

\* case message := <-s.queue: batch = append(batch, message); the sleep begins
BqFirst ==
    /\ bq.at = "idle"
    /\ bq.queue # <<>>
    /\ bq' = [bq EXCEPT !.at = "fill", !.batch = <<Head(bq.queue)>>, !.queue = Tail(@)]
    /\ UNCHANGED notBatch

\* one pass of batchLoop after the sleep: receive an item, or leave the loop
\* when the batch is full or the channel is empty
BqFill ==
    /\ bq.at = "fill"
    /\ IF BatchOpen(bq.batch) /\ bq.queue # <<>>
       THEN bq' = [bq EXCEPT !.batch = Append(@, Head(bq.queue)), !.queue = Tail(@)]
       ELSE bq' = [bq EXCEPT !.at = "process"]
    /\ UNCHANGED notBatch

RECURSIVE MaxOf(_, _)
\* the largest element of a sequence, or the given number
MaxOf(s, n) == IF s = <<>> THEN n ELSE MaxOf(Tail(s), IF Head(s) > n THEN Head(s) ELSE n)

\* p.Process(batch) and the loop over what it returns: the batch's first
\* message, when it is new, may fail and be enqueued again
BqProcess(retry) ==
    /\ bq.at = "process"
    /\ retry => Head(bq.batch) > 0
    /\ bq' = [bq EXCEPT !.at = "idle", !.batch = <<>>,
                        !.last = MaxOf(bq.batch, @),
                        !.queue = IF retry THEN Append(@, 0 - Head(bq.batch)) ELSE @]
    /\ UNCHANGED notBatch

(***************************************************************************)
(* Paginated log queries (internal/db/log.go).  A table is a set of rows;  *)
(* a result set is a set of <<branch, row>> pairs, so that UNION ALL keeps *)
(* a row that both branches select twice.                                  *)
(***************************************************************************)
PageRows ==
    {[hash |-> 1, dest |-> "ca", created_at |-> 0, data |-> [topic |-> "t1", from |-> "x", to |-> "y"]],
     [hash |-> 2, dest |-> "ca", created_at |-> 1, data |-> [topic |-> "t1", from |-> "y", to |-> "y"]],
     [hash |-> 3, dest |-> "ca", created_at |-> 1, data |-> [topic |-> "t2", from |-> "x", to |-> "y"]],
     [hash |-> 4, dest |-> "cb", created_at |-> 1, data |-> [topic |-> "t1", from |-> "x", to |-> "y"]],
     [hash |-> 5, dest |-> "ca", created_at |-> 2, data |-> [topic |-> "t1", from |-> "x", to |-> "x"]],
     [hash |-> 6, dest |-> "ca", created_at |-> 1, data |-> [topic |-> "t1", from |-> "x", to |-> "y"]]}

\* the tables, the filter maps and the requests of the log queries
PageTables == {t \in SUBSET PageRows : Cardinality(t) <= 3}
DataFilters == {{}, {<<"from", "x">>}, {<<"to", "y">>}, {<<"from", "x">>, <<"to", "y">>}}
PageRequests ==
    [contract : {"ca"}, signature : {"t1", "t2"}, date : {1, 2}, dataFilters : DataFilters,
     dataFilters2 : DataFilters, limit : {1, 2}, offset : {0, 1}]

\* the condition engine.GenerateJSONBQuery builds: data.<name> = <literal>
\* for every entry of the map, joined by AND
GenerateJSONBQuery(row, filters) == \A f \in filters : row.data[f[1]] = f[2]

\* WHERE dest = $1 AND data->>'topic' = $2 AND created_at <= $3 [AND filters]
WherePaginated(table, rq, filters, branch) ==
    {<<branch, r>> : r \in {r \in table : /\ r.dest = rq.contract
                                          /\ r.data.topic = rq.signature
                                          /\ r.created_at <= rq.date
                                          /\ GenerateJSONBQuery(r, filters)}}

\* WHERE dest = $1 AND data->>'topic' = $2 AND created_at >= $3 [AND filters]
WhereNew(table, rq, filters, branch) ==
    {<<branch, r>> : r \in {r \in table : /\ r.dest = rq.contract
                                          /\ r.data.topic = rq.signature
                                          /\ r.created_at >= rq.date
                                          /\ GenerateJSONBQuery(r, filters)}}

\* WHERE dest = $1 AND created_at >= $2 [AND filters]
WhereNewAnyTopic(table, rq, filters, branch) ==
    {<<branch, r>> : r \in {r \in table : /\ r.dest = rq.contract
                                          /\ r.created_at >= rq.date
                                          /\ GenerateJSONBQuery(r, filters)}}

\* the place the database gives an element among those of one created_at
TieKey(e) == 10 * e[1] + e[2].hash

RECURSIVE OrderByCreatedAtDesc(_, _)
\* ORDER BY created_at DESC; rows of one created_at come in either order
OrderByCreatedAtDesc(set, lowFirst) ==
    IF set = {} THEN <<>>
    ELSE LET newest == {e \in set : \A o \in set : o[2].created_at <= e[2].created_at}
             e == CHOOSE e \in newest :
                      \A o \in newest : IF lowFirst THEN TieKey(e) <= TieKey(o)
                                        ELSE TieKey(e) >= TieKey(o)
         IN  <<e[2]>> \o OrderByCreatedAtDesc(set \ {e}, lowFirst)

\* LIMIT $n OFFSET $m
LimitOffset(rows, limit, offset) ==
    SubSeq(rows, offset + 1, IF offset + limit < Len(rows) THEN offset + limit ELSE Len(rows))

GetAllPaginatedLogs(table, rq, lowFirst) ==
    LimitOffset(OrderByCreatedAtDesc(WherePaginated(table, rq, {}, 1), lowFirst),
                rq.limit, rq.offset)

\* the second map is looked at only when the first is not empty
GetPaginatedLogs(table, rq, lowFirst) ==
    LET first == WherePaginated(table, rq, rq.dataFilters, 1)
        second == IF rq.dataFilters # {} /\ rq.dataFilters2 # {}
                  THEN WherePaginated(table, rq, rq.dataFilters2, 2) ELSE {}
    IN  LimitOffset(OrderByCreatedAtDesc(first \cup second, lowFirst), rq.limit, rq.offset)

GetAllNewLogs(table, rq, lowFirst) ==
    LimitOffset(OrderByCreatedAtDesc(WhereNew(table, rq, rq.dataFilters, 1), lowFirst),
                rq.limit, rq.offset)

GetNewLogs(table, rq, lowFirst) ==
    LET first == WhereNewAnyTopic(table, rq, rq.dataFilters, 1)
        second == IF rq.dataFilters # {} /\ rq.dataFilters2 # {}
                  THEN WhereNewAnyTopic(table, rq, rq.dataFilters2, 2) ELSE {}
    IN  LimitOffset(OrderByCreatedAtDesc(first \cup second, lowFirst), rq.limit, rq.offset)

NoRequest ==
    [contract |-> "ca", signature |-> "t1", date |-> 1, dataFilters |-> {}, dataFilters2 |-> {},
     limit |-> 1, offset |-> 0]

IdlePage == pg = [table |-> {}, rq |-> NoRequest, op |-> "none", page |-> <<>>]

notPage == <<uservars, logs, hashvars, poolvars, crashed, queuevars, mu, calls, hist, tp, eq,
            ls, ix, gas, bq, rt, cr, sg, rc2>>

\* one call of each query on the table, with the request of the handler
CallGetAllPaginatedLogs ==
    /\ pg.op = "none"
    /\ \E lowFirst \in BOOLEAN :
           pg' = [pg EXCEPT !.op = "GetAllPaginatedLogs",
                            !.page = GetAllPaginatedLogs(pg.table, pg.rq, lowFirst)]
    /\ UNCHANGED notPage

CallGetPaginatedLogs ==
    /\ pg.op = "none"
    /\ \E lowFirst \in BOOLEAN :
           pg' = [pg EXCEPT !.op = "GetPaginatedLogs",
                            !.page = GetPaginatedLogs(pg.table, pg.rq, lowFirst)]
    /\ UNCHANGED notPage

CallGetAllNewLogs ==
    /\ pg.op = "none"
    /\ \E lowFirst \in BOOLEAN :
           pg' = [pg EXCEPT !.op = "GetAllNewLogs",
                            !.page = GetAllNewLogs(pg.table, pg.rq, lowFirst)]
    /\ UNCHANGED notPage

CallGetNewLogs ==
    /\ pg.op = "none"
    /\ \E lowFirst \in BOOLEAN :
           pg' = [pg EXCEPT !.op = "GetNewLogs",
                            !.page = GetNewLogs(pg.table, pg.rq, lowFirst)]
    /\ UNCHANGED notPage

(***************************************************************************)
(* Retries of the queue worker (internal/queue/queue.go, Start, Enqueue).  *)
(* Producers and the worker place messages in one buffered channel; the    *)
(* worker is its only receiver.  The error channel is drained, so a send   *)
(* on it returns.                                                          *)
(***************************************************************************)
Produced == {"p1", "p2", "p3"}
RetryCapacities == {1, 2}

IdleRetry ==
    rt = [cap |-> 1, queue |-> <<>>, at |-> "idle", batch |-> <<>>, todo |-> <<>>,
          hold |-> <<>>, done |-> [m \in Produced |-> "new"]]

notRetry == <<uservars, logs, hashvars, poolvars, crashed, queuevars, mu, calls, hist, tp, eq,
             ls, ix, gas, bq, pg, cr, sg, rc2>>

(***************************************************************************)
(* A connect that meets departures (internal/ws/pools.go, Connect;         *)
(* connections.go, Connect, Run, Close).  The topic has had at most two    *)
(* pools: the one in the registry at start and the one Connect may create. *)
(* A run loop is running, has returned (Close not yet at its channels), or *)
(* has closed its channels.  Only clients of the first pool leave.  The    *)
(* handler's panic is recovered by the HTTP server and the deferred Unlock *)
(* runs; a panic of another goroutine ends the process.                    *)
(***************************************************************************)
PoolIds == {1, 2}
NoPoolYet == [made |-> FALSE, open |-> FALSE, run |-> "none", clients |-> [q \in Queries |-> {}]]

\* NewConnectionPool(topic) and go p.pools[topic].Run()
NewConnectionPool == [made |-> TRUE, open |-> TRUE, run |-> "running",
                      clients |-> [q \in Queries |-> {}]]

IdleRace ==
    cr = [n |-> "c1", conn |-> "start", lock |-> FALSE, cur |-> 1, target |-> 0,
          pools |-> [p \in PoolIds |-> NoPoolYet], leaving |-> {}, crash |-> FALSE]

notRace == <<uservars, logs, hashvars, poolvars, crashed, queuevars, mu, calls, hist, tp, eq,
            ls, ix, gas, bq, pg, rt, sg, rc2>>

\* the readPump of a registered client ends: it is at cm.unregister <- client
RaceLeave(c) ==
    /\ ~cr.crash
    /\ c \in UNION {cr.pools[1].clients[q] : q \in Queries}
    /\ c \notin cr.leaving
    /\ cr' = [cr EXCEPT !.leaving = @ \cup {c}]
    /\ UNCHANGED notRace

\* Run of the first pool, case client := <-cm.unregister; on a closed channel the
\* sender panics, and while Run has returned and Close has not closed the
\* channel the sender waits
RaceUnregister(c) ==
    /\ ~cr.crash
    /\ c \in cr.leaving
    /\ cr.pools[1].run \in {"running", "closed"}
    /\ IF cr.pools[1].run = "closed"
       THEN cr' = [cr EXCEPT !.crash = TRUE, !.leaving = @ \ {c}]
       ELSE LET left == [cr.pools[1].clients EXCEPT ![QueryOf(c)] = {}]
            IN  cr' = [cr EXCEPT !.leaving = @ \ {c},
                                 !.pools[1].clients = left,
                                 !.pools[1].run = IF \A q \in Queries : left[q] = {}
                                                  THEN "returned" ELSE "running"]
    /\ UNCHANGED notRace

\* Close, first statement: cm.open = false
RaceCloseOpen(p) ==
    /\ ~cr.crash
    /\ cr.pools[p].run = "returned"
    /\ cr.pools[p].open
    /\ cr' = [cr EXCEPT !.pools[p].open = FALSE]
    /\ UNCHANGED notRace

\* Close: close(cm.register); close(cm.unregister); close(cm.broadcast)
RaceCloseChannels(p) ==
    /\ ~cr.crash
    /\ cr.pools[p].run = "returned"
    /\ ~cr.pools[p].open
    /\ cr' = [cr EXCEPT !.pools[p].run = "closed"]
    /\ UNCHANGED notRace

\* ConnectionPools.Connect: p.mu.Lock()
RaceLock ==
    /\ ~cr.crash
    /\ cr.conn = "start"
    /\ ~cr.lock
    /\ cr' = [cr EXCEPT !.conn = "locked", !.lock = TRUE]
    /\ UNCHANGED notRace

\* if _, ok := p.pools[topic]; !ok || !p.pools[topic].IsOpen() { new pool },
\* then cm.Connect up to the send on the register channel
RaceCheck ==
    /\ ~cr.crash
    /\ cr.conn = "locked"
    /\ IF cr.pools[cr.cur].made /\ cr.pools[cr.cur].open
       THEN cr' = [cr EXCEPT !.conn = "sending", !.target = cr.cur]
       ELSE LET new == IF cr.pools[cr.cur].made THEN cr.cur + 1 ELSE cr.cur
            IN  cr' = [cr EXCEPT !.conn = "sending", !.cur = new, !.target = new,
                                 !.pools[new] = NewConnectionPool]
    /\ UNCHANGED notRace

\* cm.register <- client is received by Run, case client := <-cm.register;
\* Connect returns and the deferred p.mu.Unlock() runs
RaceRegister ==
    /\ ~cr.crash
    /\ cr.conn = "sending"
    /\ cr.pools[cr.target].run = "running"
    /\ cr' = [cr EXCEPT !.conn = "done", !.lock = FALSE,
                        !.pools[cr.target].clients[QueryOf(cr.n)] = @ \cup {cr.n}]
    /\ UNCHANGED notRace

\* cm.register <- client on the closed channel: the handler panics
RaceSendOnClosed ==
    /\ ~cr.crash
    /\ cr.conn = "sending"
    /\ cr.pools[cr.target].run = "closed"
    /\ cr' = [cr EXCEPT !.conn = "panicked", !.lock = FALSE]
    /\ UNCHANGED notRace

(***************************************************************************)
(* Sponsors and nonces of one batch (internal/queue/userop.go, Process).   *)
(* A message names its entry point and its paymaster; the sponsor table    *)
(* gives paymasters pm1 and pm2 the same key.  The chain mines nothing     *)
(* while the batch is processed.                                           *)
(***************************************************************************)
Paymasters == {"pm1", "pm2", "pm3"}
BatchIds == {1, 2, 3}

\* s.db.SponsorDB.GetSponsor(paymaster) and the address of its key
GetSponsor(paymaster) == IF paymaster = "pm3" THEN "k2" ELSE "k1"

\* sampleTxm := txms[0]; GetSponsor(sampleTxm.Paymaster.Hex())
SponsorOfGroup(txms) == GetSponsor(txms[1].Paymaster)

\* nonce, err := s.evm.NonceAt(ctx, sponsor, nil); nonce += uint64(len(inProgress))
GroupNonce(nonceAt, inProg, sponsor, ep) == nonceAt[sponsor] + inProg[ep]

IdleSign ==
    sg = [batch |-> <<>>, groups |-> <<>>, signed |-> <<>>,
          inProgress |-> [e \in {"ep1", "ep2"} |-> 0], nonceAt |-> [s \in {"k1", "k2"} |-> 0]]

notSign == <<uservars, logs, hashvars, poolvars, crashed, queuevars, mu, calls, hist, tp, eq,
            ls, ix, gas, bq, pg, rt, cr, rc2>>

\* the components specified on their own in the sections below are at rest
IdleRest == IdlePage /\ IdleRetry /\ IdleRace /\ IdleSign /\ IdleOld

\* the components specified on their own are at rest
IdleUnits ==
    IdleOrder /\ IdleTopic /\ IdleEnqueue /\ IdleListen /\ IdleIndexer /\ IdleGas /\ IdleBatch
    /\ IdleRest

IdleUserOps ==
    /\ userops = [u \in UserOpHashes |-> NoOp]
    /\ now = 0
    /\ receipts = [t \in TxHashes |-> "null"]
    /\ uq = {}
    /\ waiting = {}
    /\ rcPc = "idle"
    /\ rcOps = <<>>
    /\ rcReceipt = NoCall
    /\ shim = [hash |-> OtherHash, rpcOk |-> FALSE,
               out |-> [called |-> NoTx, resp |-> NullResponse]]

LegacyRows ==
    {[status |-> UserOpStatusTimeout, tx_hash |-> t, valid_until |-> 0,
      created_at |-> 0] : t \in {NoTx} \cup TxHashes}

\* the validity bounds a client submits: soon expired, or valid for the whole run
ValidUntils == {1, MaxTime + 1}

\* the parts of the state a specification does not use stay as they start
IdleLogs == logs = [h \in LogHashes |-> NoLog]

\* The user-op queue.  Every entry point has its own sponsor.  Of the two
\* messages only m1 carries data that matches an indexed event, so a bundle
\* inserts at most one optimistic log.
Messages == {"m1", "m2"}
EntryPoints == {"ep1", "ep2"}
HasValidData(m) == m = "m1"

NoWork == [pc |-> "idle", batch |-> <<>>, groups |-> <<>>, invalid |-> <<>>, errors |-> <<>>]

IdleQueue ==
    /\ crashed = FALSE
    /\ queue = <<>>
    /\ enqueued = {}
    /\ wk = NoWork
    /\ inProgress = [e \in EntryPoints |-> {}]
    /\ txs = <<>>
    /\ chainNonce = [e \in EntryPoints |-> 0]
    /\ events = {}
    /\ resp = [m \in Messages |-> <<>>]
    /\ envs = {}
    /\ qerr = <<>>

InitUserOp ==
    /\ IdleLogs /\ IdleHash /\ IdlePool /\ IdleQueue /\ IdleUnits
    /\ userops \in {f \in [UserOpHashes -> {NoOp} \cup LegacyRows] :
                       \A u \in UserOpHashes :
                           f[u] = NoOp \/ f[u].tx_hash \in {NoTx, BundleTx(u)}}
    /\ now = 0
    /\ receipts = [t \in TxHashes |-> "null"]
    /\ uq = {}
    /\ waiting = {}
    /\ rcPc = "idle"
    /\ rcOps = <<>>
    /\ rcReceipt = NoCall
    /\ shim = [hash |-> OtherHash, rpcOk |-> FALSE,
               out |-> [called |-> NoTx, resp |-> NullResponse]]

NextUserOp ==
    \/ \E u \in UserOpHashes, vu \in ValidUntils : SendUserOperation(u, vu)
    \/ \E u \in UserOpHashes : QueueSubmitted(u)
    \/ \E u \in UserOpHashes : QueueFailed(u)
    \/ \E u \in UserOpHashes : WaitForTxDone(u)
    \/ ExpirePending
    \/ RcFetch
    \/ RcNoTxHash
    \/ \E rpcOk \in BOOLEAN : RcCheckReceipt(rpcOk)
    \/ RcUpdate
    \/ \E tx \in TxHashes, outcome \in {"ok", "failed"} : MineTx(tx, outcome)
    \/ Tick

SpecUserOp == InitUserOp /\ [][NextUserOp]_vars

(***************************************************************************)
(* Log store (internal/db/log.go).  A row keeps hash (the key), status,    *)
(* created_at and updated_at; the other columns are written and never      *)
(* read by the operations below.                                           *)
(***************************************************************************)
LogRow(lg) == [status |-> lg.status, created_at |-> lg.created_at,
               updated_at |-> lg.updated_at]

\* INSERT ... VALUES ($1, ..., $11) ON CONFLICT (hash) DO NOTHING, called with
\* ten arguments (lg.Sender is not passed): Exec returns an error, no row is written
AddLog(store, lg) ==
    IF AddLogArguments # AddLogPlaceholders THEN store
    ELSE IF store[lg.hash] = NoLog THEN [store EXCEPT ![lg.hash] = LogRow(lg)]
    ELSE store

RECURSIVE AddLogs(_, _)
\* one INSERT ... ON CONFLICT (hash) DO UPDATE SET ..., status = EXCLUDED.status,
\* created_at = EXCLUDED.created_at, updated_at = EXCLUDED.updated_at per record
AddLogs(store, lg) ==
    IF lg = <<>> THEN store
    ELSE AddLogs([store EXCEPT ![Head(lg).hash] = LogRow(Head(lg))], Tail(lg))

\* UPDATE ... SET status = $1 WHERE hash = $2 AND status != 'success'
SetStatus(store, status, hash) ==
    IF hash \in LogHashes /\ store[hash] # NoLog /\ store[hash].status # LogStatusSuccess
    THEN [store EXCEPT ![hash].status = status]
    ELSE store

\* DELETE ... WHERE hash = $1 AND status != 'success'
RemoveLog(store, hash) ==
    IF hash \in LogHashes /\ store[hash] # NoLog /\ store[hash].status # LogStatusSuccess
    THEN [store EXCEPT ![hash] = NoLog]
    ELSE store

\* a purge of every in-progress row, whatever its age
RemoveInProgressLogs(store) ==
    [h \in LogHashes |->
        IF store[h] # NoLog /\ store[h].status \in {LogStatusSending, LogStatusPending}
        THEN NoLog ELSE store[h]]

\* DELETE ... WHERE created_at <= now - 30s AND status IN ('sending', 'pending')
RemoveOldInProgressLogs(store) ==
    [h \in LogHashes |->
        IF store[h] # NoLog /\ store[h].created_at <= now - OldAfter
                            /\ store[h].status \in {LogStatusSending, LogStatusPending}
        THEN NoLog ELSE store[h]]

\* for log := range logch: the record is built with status success and the
\* block's time, and upserted: i.db.LogDB.AddLogs([]*engine.Log{l})
IxAddLogs(i, blockTime, ok) ==
    /\ ix.at = "recv"
    /\ ix' = [ix EXCEPT !.at = ListenerNext("get", ok), !.log = i]
    /\ logs' = IF ok
               THEN AddLogs(logs, <<[hash |-> LogHash(i), status |-> LogStatusSuccess,
                                     created_at |-> blockTime, updated_at |-> now]>>)
               ELSE logs
    /\ UNCHANGED <<now, envs, notIndexer>>

\* dbLog, err := i.db.LogDB.GetLog(l.Hash); i.pools.BroadcastMessage(update, dbLog)
IxBroadcast(ok) ==
    /\ ix.at = "get"
    /\ ix' = [ix EXCEPT !.at = ListenerNext("purge", ok)]
    /\ envs' = IF ix'.at = "purge"
               THEN envs \cup {<<"update", LogHash(ix.log), logs[LogHash(ix.log)].status>>}
               ELSE envs
    /\ UNCHANGED <<now, logs, notIndexer>>

\* err = i.db.LogDB.RemoveOldInProgressLogs()
IxPurge(ok) ==
    /\ ix.at = "purge"
    /\ logs' = IF ok THEN RemoveOldInProgressLogs(logs) ELSE logs
    /\ ix' = [ix EXCEPT !.at = ListenerNext("recv", ok),
                        !.purged = {h \in LogHashes : logs[h] # NoLog /\ logs'[h] = NoLog}]
    /\ UNCHANGED <<now, envs, notIndexer>>

\* time passes
IxTick ==
    /\ now < MaxTime
    /\ now' = now + 1
    /\ UNCHANGED <<logs, envs, ix, notIndexer>>

(***************************************************************************)
(* User-op queue (internal/queue/queue.go), its processor (internal/queue/ *)
(* userop.go), the chain that mines the bundles and the indexer            *)
(* (internal/indexer/events.go).                                           *)
(***************************************************************************)
\* what can happen to a group: GetSponsor fails; a later step up to SignTx
\* fails; GetEvents fails; SendTransaction fails with an rpc.Error of another
\* code than -32000, with code -32000 and another text, with "insufficient
\* funds", or with an error that is no rpc.Error; SendTransaction succeeds
Outcomes == {"sponsor", "presign", "events", "rpcOther", "rpc32000", "insufficient",
             "nonRpc", "sent"}

notQueue == <<userops, receipts, uq, waiting, rcPc, rcOps, rcReceipt, shim, hashvars, poolvars,
             unitvars>>

\* Service.Enqueue, once per message, of a user op for some entry point
Enqueue(m, ep) ==
    /\ ~crashed
    /\ m \notin enqueued
    /\ enqueued' = enqueued \cup {m}
    /\ queue' = Append(queue, [id |-> m, EntryPoint |-> ep, RetryCount |-> 0, Handed |-> 0])
    /\ UNCHANGED <<wk, inProgress, txs, chainNonce, events, resp, envs, logs, now, crashed,
                   qerr, notQueue>>

\* Service.Start: a batch of what the channel holds, then Process up to the
\* grouping by entry point; the groups are visited in map order.  Handed
\* counts the calls of Process a message was passed to.
StartBatch ==
    /\ ~crashed
    /\ wk.pc = "idle"
    /\ queue # <<>>
    /\ LET n == IF Len(queue) < batchSize THEN Len(queue) ELSE batchSize
           batch == [k \in 1..n |-> [queue[k] EXCEPT !.Handed = @ + 1]]
       IN  /\ queue' = SubSeq(queue, n + 1, Len(queue))
           /\ \E groups \in SeqsOf({batch[k].EntryPoint : k \in 1..n}) :
                 wk' = [pc |-> "process", batch |-> batch, groups |-> groups,
                        invalid |-> <<>>, errors |-> <<>>]
    /\ UNCHANGED <<enqueued, inProgress, txs, chainNonce, events, resp, envs, logs, now,
                   crashed, qerr, notQueue>>

\* messagesByEntryPoint[entrypoint]
GroupOf(batch, ep) == SelectSeq(batch, LAMBDA x : x.EntryPoint = ep)

\* the errors appended for a failed group: one per message, and one per pair of
\* messages when GetSponsor failed
GroupErrors(outcome, n) == [j \in 1..(IF outcome = "sponsor" THEN n * n ELSE n) |-> outcome]

\* nonce, err := s.evm.NonceAt(...); nonce += uint64(len(inProgress))
NextNonce(ep) == chainNonce[ep] + Cardinality(inProgress[ep])

\* msg.Respond(data, err): the result channel of the message receives one value
Respond(r, m, tx, err) == [r EXCEPT ![m] = Append(@, [tx |-> tx, err |-> err])]

RECURSIVE RespondAll(_, _, _)
\* for _, msg := range msgs { msg.Respond(signedTxHash, nil) }
RespondAll(r, ids, tx) ==
    IF ids = {} THEN r
    ELSE LET m == CHOOSE x \in ids : TRUE
         IN  RespondAll(Respond(r, m, tx, "nil"), ids \ {m}, tx)

\* the optimistic log of bundle i
SendingLog(i) == [hash |-> LogHash(i), status |-> LogStatusSending,
                  created_at |-> now, updated_at |-> now]

\* the log store after a bundle with an optimistic log went through
\* SendTransaction: RemoveLog on an error other than insufficient funds;
\* SetStatus on insufficient funds and on success, called with the hash as
\* status and the status as hash
StoreAfterSend(outcome, i) ==
    LET added == AddLog(logs, SendingLog(i))
    IN  IF outcome \in {"rpcOther", "rpc32000"} THEN RemoveLog(added, LogHash(i))
        ELSE IF outcome = "insufficient" THEN SetStatus(added, LogHash(i), LogStatusFail)
        ELSE IF outcome = "sent" THEN SetStatus(added, LogHash(i), LogStatusPending)
        ELSE added

\* the envelopes broadcast for that log
EnvelopesAfterSend(outcome, i) ==
    {<<"new", LogHash(i), LogStatusSending>>}
        \cup (IF outcome \in {"rpcOther", "rpc32000"}
              THEN {<<"remove", LogHash(i), LogStatusSending>>}
              ELSE IF outcome = "insufficient" THEN {<<"update", LogHash(i), LogStatusFail>>}
              ELSE {})

\* one iteration of the loop over the entry points in Process
ProcessGroup(outcome) ==
    /\ ~crashed
    /\ wk.pc = "process"
    /\ LET ep == Head(wk.groups)
           msgs == GroupOf(wk.batch, ep)
           ids == {msgs[k].id : k \in 1..Len(msgs)}
           i == Len(txs) + 1
           optimistic == \E m \in ids : HasValidData(m)
           signed == [ep |-> ep, nonce |-> NextNonce(ep), msgs |-> ids, st |-> "unsent",
                      wait |-> FALSE, minedAt |-> 0]
           rest == [wk EXCEPT !.groups = Tail(@),
                              !.pc = IF Tail(wk.groups) = <<>> THEN "retry" ELSE "process"]
           failed == [rest EXCEPT !.invalid = @ \o msgs,
                                  !.errors = @ \o GroupErrors(outcome, Len(msgs))]
       IN  IF outcome \in {"sponsor", "presign"}
           THEN /\ wk' = failed
                /\ UNCHANGED <<inProgress, txs, resp, envs, logs, crashed>>
           ELSE /\ i <= MaxTxs
                /\ txs' = Append(txs, [signed EXCEPT !.st = IF outcome = "sent" THEN "mempool"
                                                            ELSE IF outcome = "events"
                                                            THEN "unsent" ELSE "rejected",
                                                     !.wait = (outcome = "sent")])
                /\ inProgress' = [inProgress EXCEPT ![ep] =
                                     IF outcome \in {"events", "nonRpc", "sent"}
                                     THEN @ \cup {i} ELSE @]
                /\ logs' = IF optimistic /\ outcome # "events"
                           THEN StoreAfterSend(outcome, i) ELSE logs
                /\ envs' = IF optimistic /\ outcome # "events"
                           THEN envs \cup EnvelopesAfterSend(outcome, i) ELSE envs
                /\ resp' = IF outcome = "sent" THEN RespondAll(resp, ids, i) ELSE resp
                \* e.Error() on the nil rpc.Error: the process panics
                /\ crashed' = (outcome = "nonRpc")
                /\ wk' = IF outcome = "nonRpc" THEN wk
                         ELSE IF outcome = "sent" THEN rest ELSE failed
    /\ UNCHANGED <<queue, enqueued, chainNonce, events, now, qerr, notQueue>>

\* Service.Start on a returned message: it is retried, or it gets the error
AfterFailureNoContinue(msg) == [requeue |-> msg.RetryCount < MaxRetries, respond |-> TRUE]

AfterFailureInclusive(msg) ==
    IF msg.RetryCount <= MaxRetries THEN [requeue |-> TRUE, respond |-> FALSE]
    ELSE [requeue |-> FALSE, respond |-> TRUE]

AfterFailure(msg) ==
    IF msg.RetryCount < MaxRetries THEN [requeue |-> TRUE, respond |-> FALSE]
    ELSE [requeue |-> FALSE, respond |-> TRUE]

RECURSIVE NotifiedErrors(_, _, _)
\* s.err <- errs[i] for the messages that are not retried
NotifiedErrors(invalid, errors, k) ==
    IF k > Len(invalid) THEN <<>>
    ELSE (IF AfterFailure(invalid[k]).respond THEN <<errors[k]>> ELSE <<>>)
             \o NotifiedErrors(invalid, errors, k + 1)

RECURSIVE RespondErrors(_, _, _, _)
\* msg.Respond(nil, errs[i]) for the messages that are not retried
RespondErrors(r, invalid, errors, k) ==
    IF k > Len(invalid) THEN r
    ELSE RespondErrors(IF AfterFailure(invalid[k]).respond
                       THEN Respond(r, invalid[k].id, 0, errors[k]) ELSE r,
                       invalid, errors, k + 1)

\* Service.Start: the loop over what Process returned
RetryBatch ==
    /\ ~crashed
    /\ wk.pc = "retry"
    /\ LET again == SelectSeq(wk.invalid, LAMBDA msg : AfterFailure(msg).requeue)
       IN  queue' = queue \o [k \in 1..Len(again) |->
                                 [again[k] EXCEPT !.RetryCount = @ + 1]]
    /\ resp' = RespondErrors(resp, wk.invalid, wk.errors, 1)
    /\ qerr' = qerr \o NotifiedErrors(wk.invalid, wk.errors, 1)
    /\ wk' = NoWork
    /\ UNCHANGED <<enqueued, inProgress, txs, chainNonce, events, envs, logs, now, crashed,
                   notQueue>>

\* the chain mines a broadcast bundle whose nonce is the account's next one;
\* a successful bundle with a data-carrying op emits the event of its log
MineBundle(i, outcome) ==
    /\ i \in 1..Len(txs)
    /\ txs[i].st = "mempool"
    /\ txs[i].nonce = chainNonce[txs[i].ep]
    /\ txs' = [txs EXCEPT ![i].st = outcome, ![i].minedAt = now]
    /\ chainNonce' = [chainNonce EXCEPT ![txs[i].ep] = @ + 1]
    /\ events' = IF outcome = "ok" /\ (\E m \in txs[i].msgs : HasValidData(m))
                 THEN events \cup {i} ELSE events
    /\ UNCHANGED <<queue, enqueued, wk, inProgress, resp, envs, logs, now, crashed, qerr, notQueue>>

\* WaitForTx(tx, 16): nil when the bundle was mined and succeeded in time
WaitForTx(i) == IF txs[i].st = "ok" THEN "nil" ELSE "error"

\* the goroutine started after a successful broadcast returns from WaitForTx
WaitReturn(i) ==
    /\ ~crashed
    /\ i \in 1..Len(txs)
    /\ txs[i].wait
    /\ txs' = [txs EXCEPT ![i].wait = FALSE]
    /\ inProgress' = [inProgress EXCEPT ![txs[i].ep] = @ \ {i}]
    /\ IF WaitForTx(i) # "nil" /\ (\E m \in txs[i].msgs : HasValidData(m))
       THEN /\ logs' = RemoveLog(logs, LogHash(i))
            /\ envs' = envs \cup {<<"remove", LogHash(i), LogStatusSending>>}
       ELSE UNCHANGED <<logs, envs>>
    /\ UNCHANGED <<queue, enqueued, wk, chainNonce, events, resp, now, crashed, qerr, notQueue>>

\* Indexer.ListenToLogs on the event of bundle i: the record is written with
\* the block's time as created_at and the wall clock as updated_at
ListenToLogs(i) ==
    /\ ~crashed
    /\ i \in events
    /\ logs' = RemoveOldInProgressLogs(
                   AddLogs(logs, <<[hash |-> LogHash(i), status |-> LogStatusSuccess,
                              created_at |-> txs[i].minedAt, updated_at |-> now]>>))
    /\ envs' = envs \cup {<<"update", LogHash(i), LogStatusSuccess>>}
    /\ UNCHANGED <<queue, enqueued, wk, inProgress, txs, chainNonce, events, resp, now,
                   crashed, qerr, notQueue>>

\* a producer's Enqueue: s.queue <- message returns when the channel has room
RtEnqueue(m) ==
    /\ rt.done[m] = "new"
    /\ Len(rt.queue) < rt.cap
    /\ rt' = [rt EXCEPT !.queue = Append(@, [id |-> m, RetryCount |-> 0]),
                        !.done[m] = "queued"]
    /\ UNCHANGED notRetry

\* case message := <-s.queue
RtReceive ==
    /\ rt.at = "idle"
    /\ rt.queue # <<>>
    /\ rt' = [rt EXCEPT !.at = "fill", !.batch = <<Head(rt.queue)>>, !.queue = Tail(@)]
    /\ UNCHANGED notRetry

\* one pass of batchLoop
RtFill ==
    /\ rt.at = "fill"
    /\ IF BatchOpen(rt.batch) /\ rt.queue # <<>>
       THEN rt' = [rt EXCEPT !.batch = Append(@, Head(rt.queue)), !.queue = Tail(@)]
       ELSE rt' = [rt EXCEPT !.at = "process"]
    /\ UNCHANGED notRetry

\* msgs, errs := p.Process(batch): the processor returns any of the messages
RtProcess(failed) ==
    /\ rt.at = "process"
    /\ failed \subseteq {rt.batch[k].id : k \in DOMAIN rt.batch}
    /\ rt' = [rt EXCEPT !.at = "loop", !.batch = <<>>,
                        !.todo = SelectSeq(rt.batch, LAMBDA msg : msg.id \in failed),
                        !.done = [m \in Produced |->
                                     IF m \in {rt.batch[k].id : k \in DOMAIN rt.batch} \ failed
                                     THEN "ok" ELSE @[m]]]
    /\ UNCHANGED notRetry

\* for i, msg := range msgs: the message is retried (msg.RetryCount++ and
\* s.Enqueue(msg) up to the send on the channel) or it gets its error
RtLoop ==
    /\ rt.at = "loop"
    /\ IF rt.todo = <<>> THEN rt' = [rt EXCEPT !.at = "idle"]
       ELSE LET msg == Head(rt.todo)
            IN  IF AfterFailure(msg).requeue
                THEN rt' = [rt EXCEPT !.at = "placing", !.todo = Tail(@),
                                      !.hold = <<[msg EXCEPT !.RetryCount = @ + 1]>>]
                ELSE rt' = [rt EXCEPT !.todo = Tail(@), !.done[msg.id] = "failed"]
    /\ UNCHANGED notRetry

\* s.queue <- message inside the worker's Enqueue
RtPlace ==
    /\ rt.at = "placing"
    /\ Len(rt.queue) < rt.cap
    /\ rt' = [rt EXCEPT !.at = "loop", !.queue = Append(@, rt.hold[1]), !.hold = <<>>]
    /\ UNCHANGED notRetry

\* one iteration of the loop over the entry points, from the sponsor lookup
\* to the answer of SendTransaction: an error takes the hash out of inProgress
SignGroup(sent) ==
    /\ sg.groups # <<>>
    /\ LET ep == Head(sg.groups)
           txms == GroupOf(sg.batch, ep)
           sponsor == SponsorOfGroup(txms)
           nonce == GroupNonce(sg.nonceAt, sg.inProgress, sponsor, ep)
       IN  sg' = [sg EXCEPT !.groups = Tail(@),
                            !.signed = Append(@, [ep |-> ep, sponsor |-> sponsor,
                                                  nonce |-> nonce, sent |-> sent,
                                                  by |-> [k \in DOMAIN txms |-> sponsor],
                                                  txms |-> txms]),
                            !.inProgress[ep] = IF sent THEN @ + 1 ELSE @]
    /\ UNCHANGED notSign

InitQueue == IdleQueue /\ IdleLogs /\ IdleUserOps /\ IdleHash /\ IdlePool /\ IdleUnits

NextQueue ==
    \/ \E m \in Messages, ep \in EntryPoints : Enqueue(m, ep)
    \/ StartBatch
    \/ \E outcome \in Outcomes : ProcessGroup(outcome)
    \/ RetryBatch
    \/ \E i \in 1..MaxTxs, outcome \in {"ok", "failed"} : MineBundle(i, outcome)
    \/ \E i \in 1..MaxTxs : WaitReturn(i)
    \/ \E i \in 1..MaxTxs : ListenToLogs(i)
    \/ Tick

SpecQueue == InitQueue /\ [][NextQueue]_vars

(***************************************************************************)
(* Specification of the log store on its own: its operations are called    *)
(* in any order with any arguments.                                        *)
(***************************************************************************)
\* the hashes the calls name, and one string that is the hash of no record
ProbeHashes == {LogHash(1), LogHash(2)}

LogArgs == [hash : ProbeHashes, status : LogStatuses,
            created_at : {0, now}, updated_at : {now}]

LogLists == {<<lg>> : lg \in LogArgs} \cup {<<a, b>> : a \in LogArgs, b \in LogArgs}

CallAddLog(lg) == logs' = AddLog(logs, lg) /\ UNCHANGED <<now, notLog>>
CallAddLogs(lgs) == logs' = AddLogs(logs, lgs) /\ UNCHANGED <<now, notLog>>
CallSetStatus(status, hash) == logs' = SetStatus(logs, status, hash) /\ UNCHANGED <<now, notLog>>
CallRemoveLog(hash) == logs' = RemoveLog(logs, hash) /\ UNCHANGED <<now, notLog>>
CallRemoveOldInProgressLogs == logs' = RemoveOldInProgressLogs(logs) /\ UNCHANGED <<now, notLog>>

InitLogStore ==
    /\ IdleLogs /\ IdleUserOps /\ IdleHash /\ IdlePool /\ IdleQueue /\ IdleUnits

NextLogStore ==
    \/ \E lg \in LogArgs : CallAddLog(lg)
    \/ \E lgs \in LogLists : CallAddLogs(lgs)
    \/ \E status \in LogStatuses \cup {LogHash(1)}, hash \in ProbeHashes \cup {"pending"} :
          CallSetStatus(status, hash)
    \/ \E hash \in ProbeHashes \cup {"pending"} : CallRemoveLog(hash)
    \/ CallRemoveOldInProgressLogs
    \/ Tick

SpecLogStore == InitLogStore /\ [][NextLogStore]_vars

(***************************************************************************)
(* C2.  Once the stored status of a log record is success, no operation of *)
(* the log store, whatever its arguments, changes that status or removes   *)
(* the record.                                                             *)
(***************************************************************************)
SuccessIsFinal ==
    [][\A h \in LogHashes :
          logs[h].status = LogStatusSuccess => logs'[h].status = LogStatusSuccess]_vars

(***************************************************************************)
(* C1.  The statuses a user operation goes through form a path of the      *)
(* section 4.2 graph: a row is created as pending, every change of status  *)
(* follows one of the listed edges, and success and reverted are never     *)
(* left.                                                                   *)
(***************************************************************************)
LegalEdges ==
    { <<UserOpStatusPending, UserOpStatusSubmitted>>,
      <<UserOpStatusSubmitted, UserOpStatusSuccess>>,
      <<UserOpStatusSubmitted, UserOpStatusReverted>>,
      <<UserOpStatusSubmitted, UserOpStatusTimeout>>,
      <<UserOpStatusTimeout, UserOpStatusSuccess>>,
      <<UserOpStatusTimeout, UserOpStatusReverted>>,
      <<UserOpStatusPending, UserOpStatusReverted>> }

StatusStepLegal(u) ==
    \/ userops'[u].status = userops[u].status
    \/ ~Stored(u) /\ userops'[u].status = UserOpStatusPending
    \/ Stored(u) /\ <<userops[u].status, userops'[u].status>> \in LegalEdges

RcDecided == rcPc \in {"loop", "update"} /\ rcOps' = Tail(rcOps)

ReconcilerFetchesOldTimeouts ==
    (rcPc = "idle" /\ rcPc' = "loop") =>
        /\ {rcOps'[i].hash : i \in 1..Len(rcOps')} = 
               {u \in UserOpHashes : Stored(u) /\ userops[u].status = UserOpStatusTimeout
                                               /\ now - userops[u].created_at > TimeoutMinutes}
        /\ userops' = userops

ReconcilerDecidesHead ==
    RcDecided =>
        LET row == Head(rcOps)
        IN  /\ userops[row.hash].status = UserOpStatusTimeout
            /\ now - userops[row.hash].created_at > TimeoutMinutes
            /\ row.tx_hash = NoTx => userops'[row.hash].status = UserOpStatusReverted
            /\ (row.tx_hash # NoTx /\ ~rcReceipt.err /\ rcReceipt.result # NullResult)
                   => userops'[row.hash].status = UserOpStatusSuccess
            /\ (row.tx_hash # NoTx /\ ~rcReceipt.err /\ rcReceipt.result = NullResult)
                   => userops'[row.hash].status = UserOpStatusReverted
            /\ \A u \in UserOpHashes \ {row.hash} : userops'[u] = userops[u]

ReconcilerLeavesOthers ==
    (rcPc # rcPc' \/ rcOps # rcOps' \/ rcReceipt # rcReceipt') /\ ~RcDecided
        => userops' = userops

NextShim ==
    \/ \E u \in UserOpHashes, vu \in ValidUntils : SendUserOperation(u, vu)
    \/ \E u \in UserOpHashes : QueueSubmitted(u)
    \/ \E u \in UserOpHashes : WaitForTxDone(u)
    \/ \E tx \in TxHashes, outcome \in {"ok", "failed"} : MineTx(tx, outcome)
    \/ \E hash \in QueryHashes, rpcOk \in BOOLEAN : GetReceipt(hash, rpcOk)

SpecShim == InitUserOp /\ [][NextShim]_vars

InitHash ==
    /\ hl \in Logs \X Logs
    /\ hh = <<>>
    /\ IdleLogs /\ IdleUserOps /\ IdlePool /\ IdleQueue /\ IdleUnits

SpecHash == InitHash /\ [][HashLogs]_vars

(***************************************************************************)
(* C6.  Two log records with the same value, the same tx_hash and data     *)
(* holding the same top-level key/value pairs have the same hash, whatever *)
(* the order of the keys and whatever their other fields.                  *)
(***************************************************************************)
\* the key/value pairs of a document, values compared as numbers
Members(doc) == {<<doc[i][1], IF doc[i][2] = "2" THEN 2 ELSE 1>> : i \in 1..Len(doc)}

SameContent(a, b) ==
    /\ a.value = b.value
    /\ a.tx_hash = b.tx_hash
    /\ a.data.isNil = b.data.isNil
    /\ Members(a.data.doc) = Members(b.data.doc)

InitPool == IdlePool /\ IdleLogs /\ IdleUserOps /\ IdleHash /\ IdleQueue /\ IdleUnits

SpecPool == InitPool /\ [][NextPool]_vars

(***************************************************************************)
(* C5.  One broadcast call gives a client of the pool at most one          *)
(* envelope, and gives it one only if the client's query matches the       *)
(* record.                                                                 *)
(***************************************************************************)
OneEnvelopeIfMatch ==
    \A c \in Clients :
        /\ got[c] <= 1
        /\ got[c] = 1 => MatchesQuery(bc.rec, QueryOf(c))

\* a call has ended that reached both clients of the matching query and not
\* the registered client of the other query
OneEnvelopeIfMatchWitness ==
    /\ bc.pc = "idle"
    /\ got = [c \in Clients |-> IF c = "c3" THEN 0 ELSE 1]
    /\ clients["q2"] = {"c3"}


(***************************************************************************)
(* C3.  For every sponsor and entry point, the nonces of the bundle        *)
(* transactions the queue signs are strictly increasing in signing order,  *)
(* also after a rejected broadcast, after a mining wait that timed out and *)
(* while a wait is still running.                                          *)
(***************************************************************************)
NoncesIncrease ==
    \A i, j \in 1..Len(txs) :
        (i < j /\ txs[i].ep = txs[j].ep) => txs[i].nonce < txs[j].nonce

(***************************************************************************)
(* C4.  Submission is at most once: of the bundle transactions that        *)
(* contain a message at most one is broadcast successfully, and the result *)
(* channel of the message receives at most one response.                   *)
(***************************************************************************)
BroadcastBundles(m) ==
    {i \in 1..Len(txs) : m \in txs[i].msgs /\ txs[i].st \in {"mempool", "ok", "failed"}}

AtMostOnce ==
    \A m \in Messages : Cardinality(BroadcastBundles(m)) <= 1 /\ Len(resp[m]) <= 1

\* one message was rejected, retried and then broadcast; the other got the
\* error after its retries
AtMostOnceWitness ==
    /\ \E i \in 1..Len(txs) : txs[i].st = "rejected" /\ "m1" \in txs[i].msgs
    /\ Cardinality(BroadcastBundles("m1")) = 1
    /\ Len(resp["m1"]) = 1 /\ resp["m1"][1].err = "nil"
    /\ Len(resp["m2"]) = 1 /\ resp["m2"][1].err # "nil"

(***************************************************************************)
(* C7.  When the indexer processes the event of a bundle, the log store    *)
(* holds after it the record of that hash with status success, and when    *)
(* the event had been indexed before, the store is as it was.              *)
(***************************************************************************)
IndexerDeduplicates ==
    [][\A i \in 1..MaxTxs :
          ListenToLogs(i) =>
              /\ logs'[LogHash(i)].status = LogStatusSuccess
              /\ logs[LogHash(i)].status = LogStatusSuccess => logs' = logs]_vars


(***************************************************************************)
(* The reconciler as it is scheduled: the ticker of TimeoutService.Start   *)
(* starts a pass every minute and a pass that has started runs to its end; *)
(* the queue worker runs beside it.  Nothing schedules the expiry policy.  *)
(***************************************************************************)
RcStep ==
    RcFetch \/ RcNoTxHash \/ (\E rpcOk \in BOOLEAN : RcCheckReceipt(rpcOk)) \/ RcUpdate

\* the queue worker takes every enqueued operation and ends every wait
UqStep ==
    \E u \in UserOpHashes : QueueSubmitted(u) \/ QueueFailed(u) \/ WaitForTxDone(u)

SpecReconciler ==
    InitUserOp /\ [][NextUserOp]_vars /\ WF_vars(RcStep) /\ WF_vars(UqStep) /\ WF_vars(Tick)

(***************************************************************************)
(* C11.  A user operation that is pending with valid_until <= now is       *)
(* eventually moved out of pending while the reconciler keeps running its  *)
(* passes, and the expiry policy leaves pending operations with            *)
(* valid_until > now as they are.                                          *)
(***************************************************************************)
ExpiredPending(u) ==
    userops[u].status = UserOpStatusPending /\ userops[u].valid_until <= now

ReconcilerExpiresPending ==
    /\ \A u \in UserOpHashes :
          ExpiredPending(u) ~> (userops[u].status # UserOpStatusPending)
    /\ [][ExpirePending =>
             \A u \in UserOpHashes :
                 (userops[u].status = UserOpStatusPending /\ userops[u].valid_until > now)
                     => userops'[u] = userops[u]]_vars


(***************************************************************************)
(* C12.  A message that Process returns with an error is passed to Process *)
(* again until it has been passed MaxRetries + 1 times, with RetryCount    *)
(* 0..MaxRetries; after that failure its result channel receives the error *)
(* and the same error is sent on the error channel of the queue.  A        *)
(* message that has its response is not passed to Process again.           *)
(***************************************************************************)
InQueue(q, m) == \E j \in 1..Len(q) : q[j].id = m

SignsOptimistic ==
    /\ Len(txs') = Len(txs) + 1
    /\ \E m \in txs'[Len(txs')].msgs : HasValidData(m)

(***************************************************************************)
(* C13.  When SendTransaction fails with error code -32000 or with an      *)
(* "insufficient funds" error, the optimistic log of the group is in the   *)
(* store with status fail afterwards and an update envelope was broadcast  *)
(* for it.                                                                 *)
(***************************************************************************)
TransientLeavesFail ==
    [][\A outcome \in {"rpc32000", "insufficient"} :
          (ProcessGroup(outcome) /\ SignsOptimistic) =>
              /\ logs'[LogHash(Len(txs'))].status = LogStatusFail
              /\ <<"update", LogHash(Len(txs')), LogStatusFail>> \in envs']_vars

(***************************************************************************)
(* C14.  When SendTransaction fails with any other error, the optimistic   *)
(* log of the group is not in the store afterwards and a remove envelope   *)
(* was broadcast for it.                                                   *)
(***************************************************************************)
PermanentRemoves ==
    [][\A outcome \in {"rpcOther", "nonRpc"} :
          (ProcessGroup(outcome) /\ SignsOptimistic) =>
              /\ logs'[LogHash(Len(txs'))] = NoLog
              /\ <<"remove", LogHash(Len(txs')), LogStatusSending>> \in envs']_vars

(***************************************************************************)
(* C15.  A message returned with the error of a broadcast that failed for  *)
(* another reason than code -32000 or "insufficient funds" is not enqueued *)
(* again: its result channel receives the error.                           *)
(***************************************************************************)
PermanentNotRetried ==
    [][RetryBatch =>
          \A k \in 1..Len(wk.invalid) :
              wk.errors[k] = "rpcOther" =>
                  /\ ~InQueue(queue', wk.invalid[k].id)
                  /\ resp'[wk.invalid[k].id] =
                         Append(resp[wk.invalid[k].id], [tx |-> 0, err |-> wk.errors[k]])]_vars

(***************************************************************************)
(* C16.  When SendTransaction succeeds, every message of the group is      *)
(* answered with the hash of the signed bundle and the optimistic log of   *)
(* the group is in the store with status pending.                          *)
(***************************************************************************)
SentFlipsPending ==
    [][ProcessGroup("sent") =>
          /\ \A m \in txs'[Len(txs')].msgs :
                 resp'[m] = Append(resp[m], [tx |-> Len(txs'), err |-> "nil"])
          /\ SignsOptimistic => logs'[LogHash(Len(txs'))].status = LogStatusPending]_vars

(***************************************************************************)
(* C17.  When no batch is being processed and no mining wait is running,   *)
(* the in-flight list of every entry point is empty.                       *)
(***************************************************************************)
InFlightDrains ==
    (~crashed /\ wk.pc = "idle" /\ \A i \in 1..Len(txs) : ~txs[i].wait)
        => \A ep \in EntryPoints : inProgress[ep] = {}


\* client c is in the pool's map of clients
Registered(c) == c \in clients[QueryOf(c)]

(***************************************************************************)
(* C18.  When the last client of the pool leaves, the pool is not open and *)
(* not in the fabric's registry afterwards; a connect to the topic of a    *)
(* pool that is not open creates a new open pool; and no envelope is       *)
(* delivered through a pool that is not open.                              *)
(***************************************************************************)
LastLeaveClosesPool ==
    [][/\ \A c \in Clients :
              (Unregister(c) /\ Registered(c) /\ \A q \in Queries : clients'[q] = {})
                  => ~poolOpen' /\ ~PoolRegistered'
       /\ \A c \in Clients :
              (Connect(c) /\ ~poolOpen) => poolOpen' /\ poolGen' = poolGen + 1
       /\ (BroadcastSend /\ got' # got) => poolOpen]_vars

(***************************************************************************)
(* C19.  A broadcast never waits for a client: the send to the next client *)
(* of the copy can always be taken.  A connected client that is            *)
(* unregistered for a full send buffer is out of the pool's map with its   *)
(* send buffer closed once the request is served, and at the end of a      *)
(* broadcast every registered client whose query matches and that has no   *)
(* unregister request pending received the envelope.                       *)
(***************************************************************************)
NonBlockingDelivery ==
    [][/\ (~crashed /\ bc.pc = "clients") => ENABLED BroadcastSend
       /\ \A c \in Clients :
              (Unregister(c) /\ cstate[c].at = "connected")
                  => c \in sendClosed' /\ ~Registered(c)' /\ ~crashed'
       /\ (bc.pc # "idle" /\ bc'.pc = "idle") =>
              \A c \in Clients :
                  (Registered(c) /\ c \notin unreg /\ MatchesQuery(bc.rec, QueryOf(c)))
                      => got[c] = 1]_vars

(***************************************************************************)
(* C20.  Unregistering one client leaves every other client of the pool    *)
(* registered, the clients with the same query included.                   *)
(***************************************************************************)
UnregisterLeavesOthers ==
    [][\A c \in Clients :
          Unregister(c) =>
              \A d \in Clients \ {c} : Registered(d) => Registered(d)']_vars


(***************************************************************************)
(* Broadcast calls of two goroutines to the pool of three registered       *)
(* clients, c1 and c2 under query q1 and c3 under q2.                      *)
(***************************************************************************)
InitOrder ==
    /\ IdleLogs /\ IdleUserOps /\ IdleHash /\ IdleQueue /\ IdleUnits
    /\ poolGen = 1
    /\ poolOpen = TRUE
    /\ clients = [q \in Queries |-> {c \in Clients : QueryOf(c) = q}]
    /\ cstate = [c \in Clients |-> [at |-> "connected", pool |-> 1]]
    /\ send = [c \in Clients |-> 0]
    /\ sendClosed = {}
    /\ unreg = {}
    /\ bc = NoBroadcast
    /\ got = [c \in Clients |-> 0]

SpecOrder == InitOrder /\ [][NextOrder]_vars

(***************************************************************************)
(* C21.  The clients that received the envelopes of two broadcast calls    *)
(* received them in one and the same order, and when one call had returned *)
(* before the other was made, in the order of the calls.                   *)
(***************************************************************************)
Received(c, b) == \E i \in 1..Len(hist[c]) : hist[c][i] = b

Earlier(c, a, b) ==
    \E i, j \in 1..Len(hist[c]) : i < j /\ hist[c][i] = a /\ hist[c][j] = b

BroadcastsInCallOrder ==
    \A a, b \in Callers :
        a # b =>
            /\ \A c \in Clients :
                   (a \in calls[b].after /\ Received(c, a) /\ Received(c, b))
                       => Earlier(c, a, b)
            /\ \A c, d \in Clients :
                   (Earlier(c, a, b) /\ Received(d, a) /\ Received(d, b))
                       => Earlier(d, a, b)

\* two calls that overlapped, both delivered to c1 and c2, the second caller first
BroadcastsInCallOrderWitness ==
    /\ \A b \in Callers : calls[b].at = "done" /\ calls[b].after = {}
    /\ hist["c1"] = <<"b2", "b1">>
    /\ hist["c2"] = <<"b2", "b1">>


(***************************************************************************)
(* A client's connection request and a log record with arbitrary contract  *)
(* and topic texts.                                                        *)
(***************************************************************************)
InitTopic ==
    /\ IdleLogs /\ IdleUserOps /\ IdleHash /\ IdlePool /\ IdleQueue /\ IdleOrder /\ IdleEnqueue
    /\ IdleListen /\ IdleIndexer /\ IdleGas /\ IdleBatch /\ IdleRest
    /\ tp \in [contract : Addresses, topic : TopicTexts, to : Addresses, topic0 : TopicTexts,
               hasTopic : BOOLEAN, refused : {FALSE}, joined : {NoPool}, sent : {NoPool}]

NextTopic ==
    \/ \E exists \in BOOLEAN : HandleConnection(exists)
    \/ ToWSMessage

SpecTopic == InitTopic /\ [][NextTopic]_vars

(***************************************************************************)
(* C22.  A client that was connected for a contract and topic which, apart *)
(* from letter case, are the contract and topic of a log record, is in the *)
(* pool that the record's envelope is sent to.                             *)
(***************************************************************************)
SamePoolAnyCase ==
    (/\ tp.joined # NoPool
     /\ tp.sent # NoPool
     /\ ToLower(tp.contract) = ToLower(tp.to)
     /\ ToLower(tp.topic) = ToLower(tp.topic0))
        => tp.joined = tp.sent


(***************************************************************************)
(* The queue of every capacity from 1 to 10, empty at start.               *)
(***************************************************************************)
InitEnqueue ==
    /\ IdleLogs /\ IdleUserOps /\ IdleHash /\ IdlePool /\ IdleQueue /\ IdleOrder /\ IdleTopic
    /\ IdleListen /\ IdleIndexer /\ IdleGas /\ IdleBatch /\ IdleRest
    /\ eq \in [cap : Capacities, len : {0}, at : {"idle"}, out : {{}}]

NextEnqueue == EnqueueNotify \/ EnqueuePlace \/ Receive

SpecEnqueue == InitEnqueue /\ [][NextEnqueue]_vars

(***************************************************************************)
(* C23.  Enqueue emits the warning when the length is above 80% of the     *)
(* capacity, whatever the capacity, and the error when the queue is full;  *)
(* it then waits for room, and it returns only by placing its message.     *)
(***************************************************************************)
EnqueueWarnsAndBlocks ==
    [][/\ EnqueueNotify =>
              /\ 5 * eq.len > 4 * eq.cap => "almost full" \in eq'.out
              /\ eq.len = eq.cap => "full" \in eq'.out
              /\ eq'.at = "placing"
       /\ (eq.at = "placing" /\ eq'.at = "idle") => eq'.len = eq.len + 1 /\ eq.len < eq.cap]_vars


(***************************************************************************)
(* The subscription loop.  The goroutine of ListenForLogs keeps running:   *)
(* a call, a wait and a select that can proceed do proceed.  The node's    *)
(* answers and the cancellation are not scheduled by the program.          *)
(***************************************************************************)
InitListen == IdleLogs /\ IdleUserOps /\ IdleHash /\ IdlePool /\ IdleQueue /\ IdleUnits

ListenStep ==
    (\E ok \in BOOLEAN : SubscribeFilterLogs(ok)) \/ AfterSecond \/ ContextDone

NextListen ==
    \/ \E ok \in BOOLEAN : SubscribeFilterLogs(ok)
    \/ DeliverLog
    \/ SubscriptionError
    \/ AfterSecond
    \/ CancelContext
    \/ ContextDone

SpecListen == InitListen /\ [][NextListen]_vars /\ WF_vars(ListenStep)

(***************************************************************************)
(* C24.  Once the parent context is cancelled ListenForLogs eventually     *)
(* returns, wherever the loop is; it returns only after the cancellation,  *)
(* and a subscription error is followed by the wait and a new call of      *)
(* SubscribeFilterLogs.                                                    *)
(***************************************************************************)
ListenTerminatesOnCancel ==
    /\ ls.cancelled ~> ls.at = "returned"
    /\ [][ls'.at = "returned" => ls.cancelled]_vars
    /\ [][SubscriptionError => ls'.at = "wait"]_vars
    /\ (ls.at = "wait") ~> (ls.at = "subscribe")


(***************************************************************************)
(* The listener on a table that holds, at start, any rows written at time  *)
(* 0.                                                                      *)
(***************************************************************************)
FoundRows == {NoLog} \cup [status : LogStatuses, created_at : {0}, updated_at : {0}]

InitIndexer ==
    /\ IdleUserOps /\ IdleHash /\ IdlePool /\ IdleQueue /\ IdleUnits
    /\ logs \in [LogHashes -> FoundRows]

NextIndexer ==
    \/ \E i \in 1..MaxTxs, blockTime \in 0..MaxTime, ok \in BOOLEAN :
          blockTime <= now /\ IxAddLogs(i, blockTime, ok)
    \/ \E ok \in BOOLEAN : IxBroadcast(ok)
    \/ \E ok \in BOOLEAN : IxPurge(ok)
    \/ IxTick

SpecIndexer == InitIndexer /\ [][NextIndexer]_vars

(***************************************************************************)
(* C25.  For a log the listener receives, the record is first upserted     *)
(* with status success, then the update envelope with the stored record's  *)
(* status, which is success, is broadcast, then the old in-progress rows   *)
(* are purged; a failed store call ends the listener, and no envelope is   *)
(* broadcast for a log whose upsert failed.                                *)
(***************************************************************************)
UpdateEnvelope(i) == <<"update", LogHash(i), LogStatusSuccess>>

IndexerEffectsInOrder ==
    [][/\ (ix.at = "recv" /\ ix'.at = "get") =>
              /\ logs'[LogHash(ix'.log)].status = LogStatusSuccess
              /\ envs' = envs
       /\ (ix.at = "get" /\ ix'.at = "purge") =>
              /\ logs[LogHash(ix.log)].status = LogStatusSuccess
              /\ envs' = envs \cup {UpdateEnvelope(ix.log)}
              /\ logs' = logs
       /\ (ix.at = "purge" /\ ix'.at = "recv") =>
              /\ UpdateEnvelope(ix.log) \in envs
              /\ logs' = RemoveOldInProgressLogs(logs)
       /\ (\E i \in 1..MaxTxs, t \in 0..MaxTime : IxAddLogs(i, t, FALSE) /\ t <= now)
              => ix'.at = "returned" /\ envs' = envs /\ logs' = logs
       /\ (IxBroadcast(FALSE) \/ IxPurge(FALSE)) => ix'.at = "returned" /\ envs' = envs
       /\ ix.at = "returned" => UNCHANGED <<ix, envs, logs>>]_vars

\* a whole pass for log 1 ended with a purge that removed the row of log 2
IndexerEffectsInOrderWitness ==
    /\ ix = [at |-> "recv", log |-> 1, purged |-> {LogHash(2)}]
    /\ logs[LogHash(1)].status = LogStatusSuccess
    /\ envs = {UpdateEnvelope(1)}

(***************************************************************************)
(* C26.  The purge removes exactly the rows whose status is sending or     *)
(* pending and whose created_at lies OldAfter or more in the past; every   *)
(* other row stays as it is.                                               *)
(***************************************************************************)
PurgeRemovesOldInProgress ==
    [][IxPurge(TRUE) =>
          \A h \in LogHashes :
              logs'[h] = IF /\ logs[h] # NoLog
                            /\ logs[h].status \in {LogStatusSending, LogStatusPending}
                            /\ now - logs[h].created_at >= OldAfter
                         THEN NoLog
                         ELSE logs[h]]_vars

\* a purge at time OldAfter removed the pending row of time 0 and kept the row
\* that the same pass wrote as success at time 0
PurgeRemovesOldInProgressWitness ==
    /\ ix.at = "recv" /\ ix.purged = {LogHash(2)} /\ ix.log = 1
    /\ now = OldAfter
    /\ logs[LogHash(1)] = [status |-> LogStatusSuccess, created_at |-> 0, updated_at |-> 0]


InitGas == IdleLogs /\ IdleUserOps /\ IdleHash /\ IdlePool /\ IdleQueue /\ IdleUnits

NextGas == \E feesOk, ok \in BOOLEAN, estimate \in GasEstimates : NewTx(feesOk, ok, estimate)

SpecGas == InitGas /\ [][NextGas]_vars

(***************************************************************************)
(* C28.  The gas limit of a new transaction is base + base / 5, where base *)
(* is the estimate when the estimation succeeds, else the integer average  *)
(* of the retained estimates, else 500000 when none is retained; the       *)
(* retained estimates are the last ones that succeeded, at most five, and  *)
(* only a successful estimation changes them.                              *)
(***************************************************************************)
GasLimitFromEstimates ==
    [][\A ok \in BOOLEAN, estimate \in GasEstimates :
          NewTx(TRUE, ok, estimate) =>
              LET kept == gas.estimates
                  base == IF ok THEN estimate
                          ELSE IF kept # <<>> THEN SumOf(kept) \div Len(kept)
                          ELSE 500000
                  all  == kept \o <<estimate>>
              IN  /\ gas'.limit = base + base \div 5
                  /\ Len(gas'.estimates) <= 5
                  /\ gas'.estimates = IF ~ok THEN kept
                                      ELSE IF Len(all) <= 5 THEN all
                                      ELSE Tail(all)]_vars

\* six estimations succeeded, the oldest estimate was dropped, and the last
\* transaction was built from the average 48 / 5 = 9 of the retained ones
GasLimitFromEstimatesWitness ==
    /\ gas.tracked = 6
    /\ gas.estimates = <<5, 7, 12, 12, 12>>
    /\ gas.limit = 10


(***************************************************************************)
(* The worker and the producers of MaxEnqueued messages.                   *)
(***************************************************************************)
InitBatch == IdleLogs /\ IdleUserOps /\ IdleHash /\ IdlePool /\ IdleQueue /\ IdleUnits

NextBatch ==
    \/ BqEnqueue
    \/ BqFirst
    \/ BqFill
    \/ \E retry \in BOOLEAN : BqProcess(retry)

SpecBatch == InitBatch /\ [][NextBatch]_vars

(***************************************************************************)
(* C29.  Process is called with a batch of one to ten messages; the new    *)
(* messages in it are in the order of their Enqueue and come after every   *)
(* new message of the earlier batches; the batch is handed over as soon as *)
(* the channel is found empty, and before ten only then.                   *)
(***************************************************************************)
BatchesBoundedFIFO ==
    [][/\ (\E retry \in BOOLEAN : BqProcess(retry)) =>
              /\ Len(bq.batch) >= 1
              /\ Len(bq.batch) <= 10
              /\ \A i \in 1..Len(bq.batch) :
                     bq.batch[i] > 0 =>
                         /\ bq.batch[i] > bq.last
                         /\ \A j \in 1..(i - 1) : bq.batch[j] < bq.batch[i]
       /\ (bq.at = "fill" /\ bq'.at = "process") => (Len(bq.batch) = 10 \/ bq.queue = <<>>)
       /\ (BqFill /\ bq.queue = <<>>) => (bq'.at = "process" /\ bq'.batch = bq.batch)]_vars

\* a batch of the first ten messages is with Process while the eleventh waits
BatchesBoundedFIFOWitness ==
    /\ bq.at = "process"
    /\ bq.batch = [i \in 1..10 |-> i]
    /\ bq.queue = <<11>>


(***************************************************************************)
(* C30.  When Process reaches the broadcast of a bundle, the new envelope  *)
(* of an optimistic log has been handed to the fabric exactly if a user op *)
(* of the bundle carries data that matches an indexed event; the record is *)
(* then in the store with status sending when the transaction is sent, and *)
(* an update or remove envelope for the hash comes with or after the new   *)
(* envelope.                                                               *)
(***************************************************************************)
OptimisticLogBeforeSend ==
    [][\A outcome \in Outcomes \ {"sponsor", "presign", "events"} :
          ProcessGroup(outcome) =>
              LET i == Len(txs')
                  atSend == AddLog(logs, SendingLog(i))
                  new == <<"new", LogHash(i), LogStatusSending>>
              IN  /\ (new \in envs') <=> (\E m \in txs'[i].msgs : HasValidData(m))
                  /\ new \in envs' =>
                         /\ atSend[LogHash(i)] # NoLog
                         /\ atSend[LogHash(i)].status = LogStatusSending
                  /\ \A e \in envs' :
                         (e[2] = LogHash(i) /\ e[1] \in {"update", "remove"}) => new \in envs']_vars


(***************************************************************************)
(* Specification of the paginated log queries: any table of at most three  *)
(* of the rows, any request, one call.                                     *)
(***************************************************************************)
InitPage ==
    /\ IdleLogs /\ IdleUserOps /\ IdleHash /\ IdlePool /\ IdleQueue /\ IdleOrder /\ IdleTopic
    /\ IdleEnqueue /\ IdleListen /\ IdleIndexer /\ IdleGas /\ IdleBatch /\ IdleRetry /\ IdleRace
    /\ IdleSign /\ IdleOld
    /\ pg \in [table : PageTables, rq : PageRequests, op : {"none"}, page : {<<>>}]

NextPage ==
    CallGetAllPaginatedLogs \/ CallGetPaginatedLogs \/ CallGetAllNewLogs \/ CallGetNewLogs

SpecPage == InitPage /\ [][NextPage]_vars

\* what the request asks of a returned row
Requested(r, rq, op) ==
    /\ r.dest = rq.contract
    /\ r.data.topic = rq.signature
    /\ IF op \in {"GetAllPaginatedLogs", "GetPaginatedLogs"}
       THEN r.created_at <= rq.date ELSE r.created_at >= rq.date
    /\ CASE op = "GetAllPaginatedLogs" -> TRUE
         [] op = "GetAllNewLogs" -> GenerateJSONBQuery(r, rq.dataFilters)
         [] OTHER -> \/ GenerateJSONBQuery(r, rq.dataFilters)
                     \/ rq.dataFilters2 # {} /\ GenerateJSONBQuery(r, rq.dataFilters2)

(***************************************************************************)
(* C31.  Every record a paginated log query returns has dest equal to the  *)
(* requested contract and data.topic equal to the requested topic, lies on *)
(* the requested side of the date bound and satisfies the data filters,    *)
(* and the page is ordered newest first.                                   *)
(***************************************************************************)
PageMatchesRequest ==
    pg.op # "none" =>
        /\ \A i \in DOMAIN pg.page : Requested(pg.page[i], pg.rq, pg.op)
        /\ \A i, j \in DOMAIN pg.page :
               i < j => pg.page[i].created_at >= pg.page[j].created_at


\* the places of message m in a list of returned messages
PlacesOf(m, list) == {p \in DOMAIN list : list[p].id = m}

\* the result channel of message m received the hash of a signed bundle
Answered(r, m) == \E p \in DOMAIN r[m] : r[m][p].err = "nil"

(***************************************************************************)
(* C32.  Each iteration of Process over an entry-point group accounts for  *)
(* every message of the group exactly once: the message is answered with   *)
(* the hash of the signed bundle, or it is returned once in the invalid    *)
(* list, never both and never neither; the invalid and errors lists have   *)
(* the same length and the error at the place of a returned message is the *)
(* error of its group.                                                     *)
(***************************************************************************)
ProcessAccountsOnce ==
    [][\A outcome \in Outcomes :
          ProcessGroup(outcome) =>
              LET msgs == GroupOf(wk.batch, Head(wk.groups))
              IN  /\ Len(wk'.invalid) = Len(wk'.errors)
                  /\ \A k \in DOMAIN msgs :
                         LET places == PlacesOf(msgs[k].id, wk'.invalid)
                         IN  /\ Answered(resp', msgs[k].id) <=> places = {}
                             /\ Cardinality(places) <= 1
                             /\ \A p \in places :
                                    p \in DOMAIN wk'.errors /\ wk'.errors[p] = outcome]_vars


(***************************************************************************)
(* Specification of the worker's retries: a channel of capacity one or     *)
(* two, three producers, a processor that may return any message; the      *)
(* worker takes every step it can take.                                    *)
(***************************************************************************)
InitRetry ==
    /\ IdleLogs /\ IdleUserOps /\ IdleHash /\ IdlePool /\ IdleQueue /\ IdleOrder /\ IdleTopic
    /\ IdleEnqueue /\ IdleListen /\ IdleIndexer /\ IdleGas /\ IdleBatch /\ IdlePage /\ IdleRace
    /\ IdleSign /\ IdleOld
    /\ \E cap \in RetryCapacities :
           rt = [cap |-> cap, queue |-> <<>>, at |-> "idle", batch |-> <<>>, todo |-> <<>>,
                 hold |-> <<>>, done |-> [m \in Produced |-> "new"]]

WorkerStep ==
    \/ RtReceive
    \/ RtFill
    \/ \E failed \in SUBSET Produced : RtProcess(failed)
    \/ RtLoop
    \/ RtPlace

NextRetry == (\E m \in Produced : RtEnqueue(m)) \/ WorkerStep

SpecRetry == InitRetry /\ [][NextRetry]_vars /\ WF_vars(WorkerStep)

(***************************************************************************)
(* C33.  The worker's send of a retried message on the channel always      *)
(* returns, and every message a producer placed is eventually processed    *)
(* or has failed after the last retry.                                     *)
(***************************************************************************)
RetriesNeverBlock ==
    /\ (rt.at = "placing") ~> (rt.at # "placing")
    /\ \A m \in Produced : (rt.done[m] = "queued") ~> (rt.done[m] \in {"ok", "failed"})


(***************************************************************************)
(* C34.  No unregister request is sent on the unregister channel of a pool *)
(* that has closed, no send buffer is closed a second time, and a          *)
(* broadcast never sends on a send buffer that is closed.                  *)
(***************************************************************************)
NoUseAfterClose ==
    [][/\ \A c \in Clients :
              Unregister(c) =>
                  /\ poolOpen /\ cstate[c].pool = poolGen
                  /\ clients[QueryOf(c)] # {} => c \notin sendClosed
       /\ (BroadcastSend /\ bc.cls # <<>>) => Head(bc.cls) \notin sendClosed]_vars

(***************************************************************************)
(* C36.  While a client that was registered in a pool has not itself been  *)
(* unregistered, that pool is the topic's current pool and it is open.     *)
(***************************************************************************)
PoolOpenWhileClients ==
    \A c \in Clients :
        (cstate[c].at # "new" /\ c \notin sendClosed)
            => poolOpen /\ cstate[c].pool = poolGen


(***************************************************************************)
(* Specification of a connect that meets departures: one client connects   *)
(* while any of the clients of the topic's pool leave.  The goroutines of  *)
(* the handler and of the run loops take every step they can take.         *)
(***************************************************************************)
InitRace ==
    /\ IdleLogs /\ IdleUserOps /\ IdleHash /\ IdlePool /\ IdleQueue /\ IdleOrder /\ IdleTopic
    /\ IdleEnqueue /\ IdleListen /\ IdleIndexer /\ IdleGas /\ IdleBatch /\ IdlePage /\ IdleRetry
    /\ IdleSign /\ IdleOld
    /\ \E n \in Clients, there \in SUBSET Clients :
           /\ n \notin there
           /\ cr = [n |-> n, conn |-> "start", lock |-> FALSE, cur |-> 1, target |-> 0,
                    pools |-> [p \in PoolIds |->
                                  IF p = 1 /\ there # {}
                                  THEN [NewConnectionPool EXCEPT
                                           !.clients = [q \in Queries |->
                                                           {c \in there : QueryOf(c) = q}]]
                                  ELSE NoPoolYet],
                    leaving |-> {}, crash |-> FALSE]

RaceStep ==
    \/ \E c \in Clients : RaceUnregister(c)
    \/ \E p \in PoolIds : RaceCloseOpen(p)
    \/ \E p \in PoolIds : RaceCloseChannels(p)
    \/ RaceLock
    \/ RaceCheck
    \/ RaceRegister
    \/ RaceSendOnClosed

NextRace == (\E c \in Clients : RaceLeave(c)) \/ RaceStep

SpecRace == InitRace /\ [][NextRace]_vars /\ WF_vars(RaceStep)

(***************************************************************************)
(* C35.  A connect that meets the departure of the pool's clients never    *)
(* sends on a closed register channel, returns with the client registered  *)
(* in an open pool whose run loop is running, and gives the fabric's lock  *)
(* back, as long as no other goroutine has ended the process.              *)
(***************************************************************************)
ConnectRaceSafe ==
    /\ [](cr.conn # "panicked")
    /\ [][RaceRegister =>
              /\ cr'.pools[cr'.target].open
              /\ cr'.pools[cr'.target].run = "running"
              /\ cr'.n \in cr'.pools[cr'.target].clients[QueryOf(cr'.n)]]_vars
    /\ (cr.conn = "start") ~> (cr.conn = "done" \/ cr.crash)
    /\ cr.lock ~> (~cr.lock \/ cr.crash)


(***************************************************************************)
(* Specification of the signing of one batch: two or three messages, each  *)
(* with any entry point and paymaster, bundles of earlier batches in       *)
(* flight or not.                                                          *)
(***************************************************************************)
InitSign ==
    /\ IdleLogs /\ IdleUserOps /\ IdleHash /\ IdlePool /\ IdleQueue /\ IdleOrder /\ IdleTopic
    /\ IdleEnqueue /\ IdleListen /\ IdleIndexer /\ IdleGas /\ IdleBatch /\ IdlePage /\ IdleRetry
    /\ IdleRace /\ IdleOld
    /\ \E n \in {2, 3} :
       \E batch \in [1..n -> [id : BatchIds, EntryPoint : EntryPoints, Paymaster : Paymasters]],
          inProg \in [EntryPoints -> {0, 1}] :
           /\ \A k \in 1..n : batch[k].id = k
           /\ \E groups \in SeqsOf({batch[k].EntryPoint : k \in 1..n}) :
                 sg = [batch |-> batch, groups |-> groups, signed |-> <<>>,
                       inProgress |-> inProg, nonceAt |-> [s \in {"k1", "k2"} |-> 0]]

NextSign == \E sent \in BOOLEAN : SignGroup(sent)

SpecSign == InitSign /\ [][NextSign]_vars

(***************************************************************************)
(* C37.  Two bundles of one batch that are broadcast with the key of the   *)
(* same sponsor carry different nonces, and every message of a bundle is   *)
(* signed with the key of the sponsor of its own paymaster.                *)
(***************************************************************************)
OwnSponsorFreshNonce ==
    /\ \A i, j \in DOMAIN sg.signed :
           (i < j /\ sg.signed[i].sent /\ sg.signed[j].sent
                  /\ sg.signed[i].sponsor = sg.signed[j].sponsor)
               => sg.signed[i].nonce # sg.signed[j].nonce
    /\ \A i \in DOMAIN sg.signed :
           \A k \in DOMAIN sg.signed[i].txms :
               sg.signed[i].by[k] = GetSponsor(sg.signed[i].txms[k].Paymaster)


(***************************************************************************)
(* Specification of the UserOp store while a restarted process overlaps    *)
(* the one it replaces: two reconciler passes work on the same table.      *)
(***************************************************************************)
ReconcilerWrite == RcNoTxHash \/ RcUpdate
OldWrite == OldNoTxHash \/ OldUpdate

NextRestart ==
    \/ \E u \in UserOpHashes, vu \in ValidUntils : SendUserOperation(u, vu)
    \/ \E u \in UserOpHashes : QueueSubmitted(u)
    \/ \E u \in UserOpHashes : WaitForTxDone(u)
    \/ RcFetch
    \/ RcNoTxHash
    \/ \E rpcOk \in BOOLEAN : RcCheckReceipt(rpcOk)
    \/ RcUpdate
    \/ OldFetch
    \/ OldNoTxHash
    \/ \E rpcOk \in BOOLEAN : OldCheckReceipt(rpcOk)
    \/ OldUpdate
    \/ \E tx \in TxHashes, outcome \in {"ok", "failed"} : MineTx(tx, outcome)
    \/ Tick

SpecRestart == InitUserOp /\ [][NextRestart]_vars

\* C38: a reconciler pass writes a status only to a row that is in status
\* timeout at the moment of the write; a row that another writer has moved
\* out of timeout since the fetch is left as it is.
ReconcilerWritesOnlyTimeout ==
    [][/\ ReconcilerWrite =>
              \/ userops[Head(rcOps).hash].status = UserOpStatusTimeout
              \/ userops' = userops
       /\ OldWrite =>
              \/ userops[Head(rc2.ops).hash].status = UserOpStatusTimeout
              \/ userops' = userops]_vars


\* C39: the reconciler marks a timeout row that has a tx_hash as reverted
\* only when the receipt lookup completed and returned null; when the
\* lookup failed the row keeps status timeout, to be examined by a later pass.
RevertedOnlyOnNullReceipt ==
    [][RcUpdate =>
          LET u == Head(rcOps).hash
          IN /\ (userops[u].status = UserOpStatusTimeout
                    /\ userops'[u].status = UserOpStatusReverted)
                 => (~rcReceipt.err /\ rcReceipt.result = NullResult)
             /\ rcReceipt.err => userops'[u].status = userops[u].status]_vars


\* the ways SendTransaction fails
BroadcastErrors == {"rpcOther", "rpc32000", "insufficient", "nonRpc"}

\* C40: every error of the bundle broadcast, an rpc.Error or not, is an
\* ordinary failure: the messages of the group are returned as invalid, each
\* with that error, the signed hash of the group is not left in the in-flight
\* list, and the worker goes on with the remaining groups.
BroadcastErrorIsOrdinary ==
    [][\A outcome \in BroadcastErrors :
          ProcessGroup(outcome) =>
              LET msgs == GroupOf(wk.batch, Head(wk.groups))
              IN /\ ~crashed'
                 /\ wk'.invalid = wk.invalid \o msgs
                 /\ wk'.errors = wk.errors \o [j \in 1..Len(msgs) |-> outcome]
                 /\ inProgress' = inProgress
                 /\ wk'.groups = Tail(wk.groups)]_vars
====
